---------------------------- MODULE Spec2Model ----------------------------
(***************************************************************************)
(* State-machine model of the SpotifyAPI client of scatalog                *)
(* (src/utils/spotify-api.js).                                             *)
(*                                                                         *)
(*   Spec           token provider, request scheduler (makeRequest /       *)
(*                  processQueue), response cache, reinitialize            *)
(*   CacheSpec      the same client on a clock that runs over a day        *)
(*   CredentialSpec the same client with the stored credentials removed    *)
(*   TelemetrySpec  trackApiCall, trackRateLimitHit, trackCacheHit and     *)
(*                  getRateLimitStatus over chrome.storage.local           *)
(*   WindowSpec     the same on a clock that runs over a minute            *)
(*   ShutdownSpec   the telemetry functions next to reinitialize           *)
(*   SearchSpec     searchAllAlbumsByLabel and its sub-queries             *)
(*   TemporalSpec   searchByLabelAndYear called on its own, in any year    *)
(*   RepeatSpec     searchAllAlbumsByLabel called a second time            *)
(*                                                                         *)
(* Spec and CacheSpec take the telemetry call of the drain loop as one     *)
(* suspension; TelemetrySpec follows its storage operations one by one.    *)
(* SearchSpec takes each page request as one suspension that ends with a   *)
(* page or an error, however the scheduler served it.                      *)
(*                                                                         *)
(* JavaScript runs one task at a time.  An action of this module is one    *)
(* run-to-completion stretch of code: from the event that resumes a        *)
(* suspended async function (timer, network answer, storage answer) or     *)
(* starts a call, up to the next real suspension.  An await on an already  *)
(* settled promise only yields to micro-tasks of the same task, so it does *)
(* not end an action.                                                      *)
(***************************************************************************)
EXTENDS Integers, Sequences, FiniteSets, TLC

\* ----------------------------------------------------------------- bounds
MaxReq == 2          \* requests ever enqueued
MaxLoops == 2        \* processQueue activations alive at the same time
MaxCallers == 1      \* initialize/reinitialize/testConnection activations alive at once
MaxReinit == 1       \* reinitialize() calls
MaxCred == 1         \* distinct credential pairs chrome.storage.sync may hold
NumKeys == 1         \* distinct cache keys
StartTime == 1000    \* Date.now() at construction
TickStep == 100      \* a short advance of the clock (ms)
LongStep == 900      \* a long advance of the clock (ms)
MaxShort == 1        \* short advances of the clock
MaxLong == 1         \* long advances of the clock
MaxActivations == 2  \* telemetry activations alive at the same time
MaxTrack == 2        \* telemetry activations ever begun
MaxRetryAfter == 1   \* largest Retry-After value (seconds) a 429 carries
MaxMs == 2           \* one-millisecond advances of the clock
MaxPages == 3        \* non-empty pages the provider serves to one search
MaxYearSpan == 6     \* years from 1950 to the current year
FreshBase == 1000    \* ids from here on belong to releases the direct query does not list
MaxChunkPages == 5   \* non-empty pages the provider serves to one searchByLabelAndYear

\* ------------------------------------------------------- program constants
minRequestInterval == 100      \* spotify-api.js:15
TokenSkew == 60000             \* spotify-api.js:130
FreshnessWindow == 86400000    \* spotify-api.js:313  (24 * 60 * 60 * 1000)

\* expires_in values (seconds) the token endpoint may answer with
ExpiresIn == {60, 61}

\* ---------------------------------------------------------------- telemetry
Null == -1                     \* null / undefined of a number-valued slot
HourMs == 3600000              \* spotify-api.js:182
MinuteMs == 60000              \* spotify-api.js:189
DayMs == 86400000              \* length of a calendar day (toDateString, line 170)

Activations == 1..MaxActivations

Reqs == 1..MaxReq
Loops == 1..MaxLoops
Callers == 1..MaxCallers
Keys == 1..NumKeys

VARIABLES
  now,                \* Date.now()
  storedCred,         \* chrome.storage.sync: the stored credential pair, 0 = none
  clientId,           \* this.clientId, 0 = undefined
  clientSecret,       \* this.clientSecret, 0 = undefined
  accessToken,        \* this.accessToken
  tokenExpiry,        \* this.tokenExpiry; null is written 0 (both are falsy and
                      \* compare like 0 in "Date.now() < this.tokenExpiry")
  cache,              \* this.cache
  requestQueue,       \* this.requestQueue: request ids, head first
  isProcessingQueue,  \* this.isProcessingQueue
  lastRequestTime,    \* this.lastRequestTime
  loop,               \* the processQueue activations
  caller,             \* the initialize / reinitialize / testConnection activations
  promise,            \* per request: the state of the promise makeRequest returned
  req,                \* per request: cache key of the lookup that made it, epoch
  nextReq,            \* number of requests enqueued so far
  issued,             \* history: the resource HTTP calls issued, in order
  epoch,              \* history: number of reinitialize() calls begun
  tokenStoredAt,      \* history: Date.now() when the held token was stored
  tokenExpiresIn,     \* history: expires_in of the exchange that stored it
  ticks,              \* history: short and long advances of the clock so far
  crashed,            \* history: a processQueue activation ended in a TypeError
  served,             \* history: the last value a lookup returned from the cache
  store,              \* chrome.storage.local: the telemetry keys
  shutdownInitiated,  \* this.shutdownInitiated
  contextValid,       \* chrome.runtime.id is there (isExtensionContextValid)
  track,              \* the activations of trackApiCall / trackRateLimitHit /
                      \* trackCacheHit, each with the attempt or lookup awaiting it
  status,             \* the getRateLimitStatus activation
  tele,               \* history: telemetry activations begun, writes landed
  search              \* the searchAllAlbumsByLabel activation

telemetryVars == <<store, shutdownInitiated, contextValid, track, status, tele>>
searchVars == <<search>>

vars == <<now, storedCred, clientId, clientSecret, accessToken, tokenExpiry, cache,
          requestQueue, isProcessingQueue, lastRequestTime, loop, caller, promise,
          req, nextReq, issued, epoch, tokenStoredAt, tokenExpiresIn, ticks, crashed,
          served, store, shutdownInitiated, contextValid, track, status, tele, search>>

\* A bearer token is identified by the exchange that produced it: the
\* credential it was requested with and the epoch in which the exchange began.
NoToken == [cred |-> 0, epoch |-> 0]
Token(c, e) == [cred |-> c, epoch |-> e]

NoEntry == [has |-> FALSE, data |-> 0, timestamp |-> 0]

IdleLoop == [pc |-> "idle", item |-> 0, wakeAt |-> 0, out |-> "none",
             xcred |-> 0, xepoch |-> 0]
IdleCaller == [pc |-> "idle", kind |-> "none", xcred |-> 0, xepoch |-> 0]

NoServed == [key |-> 0, data |-> 0, at |-> 0]

\* chrome.storage.local before anything was written: every key undefined
\* (recentApiCalls undefined is written <<>>: the code reads it with "|| []").
EmptyStore == [apiCallsToday |-> Null, lastResetDate |-> Null,
               apiCallsThisHour |-> Null, hourlyResetTime |-> Null,
               recentApiCalls |-> <<>>, cacheHits |-> Null, rateLimitHits |-> Null,
               lastRateLimitTime |-> Null, rateLimitRetryAfter |-> Null]

\* A telemetry activation: the function running (kind), the response of the
\* attempt that awaits it (out), its locals (at: the captured now, retryAfter,
\* read: the result of the storage read, today, dayReset, hourReset), the
\* outcome delivered to the request's caller (result) and, as history, the
\* number of its storage writes that landed (writes).
IdleTrack == [pc |-> "idle", kind |-> "none", out |-> "none", at |-> 0,
              retryAfter |-> Null, read |-> EmptyStore, today |-> 0,
              dayReset |-> FALSE, hourReset |-> FALSE, result |-> "none",
              threw |-> FALSE, failedAt |-> "none", writes |-> 0]

\* The searchAllAlbumsByLabel activation: where it is suspended (pc, and the
\* page request in flight: sub-query sub at offset), the locals of the
\* running sub-query (acc: allAlbums) and of the phases (directResults,
\* variationResults, temporalResults), what it returned (items, outcome),
\* and as history the page requests made (calls) and what each was answered
\* with (answers), the phases entered, the ids the successful pages carried
\* (fetched), the requests that failed (failed: their numbers in calls) and
\* the year ranges queried (ranges).  entry is the method that was called,
\* currentYear the local of searchByLabelAndYear.
IdleSearch == [pc |-> "idle", label |-> <<>>, variations |-> <<>>, vi |-> 0,
               year |-> 0, offset |-> 0, acc |-> <<>>, directResults |-> <<>>,
               variationResults |-> <<>>, temporalResults |-> <<>>,
               items |-> <<>>, total |-> 0, outcome |-> "none",
               calls |-> <<>>, phases |-> {}, fetched |-> {}, pages |-> 0,
               directFailed |-> FALSE, failed |-> {}, answers |-> <<>>,
               ranges |-> <<>>, entry |-> "searchAllAlbumsByLabel",
               currentYear |-> 0, progress |-> <<>>, stored |-> {}, http |-> 0,
               run |-> 1, firstOk |-> FALSE]

IdleStatus == [pc |-> "idle", at |-> 0, last |-> 0, retry |-> 0, limited |-> FALSE,
               ok |-> FALSE, callsLastMinute |-> 0]

Range(s) == {s[i] : i \in 1..Len(s)}

Init ==
  /\ now = StartTime
  /\ storedCred \in 0..MaxCred
  /\ clientId = 0
  /\ clientSecret = 0
  /\ accessToken = NoToken
  /\ tokenExpiry = 0
  /\ cache = [k \in Keys |-> NoEntry]
  /\ requestQueue = <<>>
  /\ isProcessingQueue = FALSE
  /\ lastRequestTime = 0
  /\ loop = [l \in Loops |-> IdleLoop]
  /\ caller = [c \in Callers |-> IdleCaller]
  /\ promise = [r \in Reqs |-> "none"]
  /\ req = [r \in Reqs |-> [key |-> 0, epoch |-> 0]]
  /\ nextReq = 0
  /\ issued = <<>>
  /\ epoch = 0
  /\ tokenStoredAt = 0
  /\ tokenExpiresIn = 0
  /\ ticks = [short |-> 0, long |-> 0]
  /\ crashed = FALSE
  /\ served = NoServed
  /\ store = EmptyStore
  /\ shutdownInitiated = FALSE
  /\ contextValid = TRUE
  /\ track = [a \in Activations |-> IdleTrack]
  /\ status = IdleStatus
  /\ tele = [begun |-> 0, throttleWrites |-> 0, hitWrites |-> 0]
  /\ search = IdleSearch


\* ------------------------------------------------------------ getAccessToken
\* A faulty variant of line 106: the token is still returned at the very
\* instant tokenExpiry (<= for <).
TokenValidLate(tok, exp) == tok # NoToken /\ exp # 0 /\ now <= exp

\* line 106: the cached token tok with expiry exp is returned while
\* Date.now() < tokenExpiry
TokenValid(tok, exp) == tok # NoToken /\ exp # 0 /\ now < exp

\* A faulty variant without the test of line 110: the exchange is posted
\* whether or not credentials are configured.
HasCredentialsAlways == TRUE

\* line 110
HasCredentials == clientId # 0 /\ clientSecret # 0

\* line 130: Date.now() + (data.expires_in * 1000) - 60000
ExpiryFor(expiresIn) == now + (expiresIn * 1000) - TokenSkew

\* lines 128-130: the answer of an exchange begun with credential c in epoch e
\* is stored, whatever happened to the client in between.
StoreToken(c, e, expiresIn) ==
  /\ accessToken' = Token(c, e)
  /\ tokenExpiry' = ExpiryFor(expiresIn)
  /\ tokenStoredAt' = now
  /\ tokenExpiresIn' = expiresIn

\* A record of one resource HTTP call: the request it serves, the time it is
\* issued, the token it carries and whether the clock was still before
\* tokenExpiry when getAccessToken handed the token out.
Call(r, tok, valid) == [req |-> r, at |-> now, valid |-> valid]

\* ------------------------------------------------------------- processQueue
\* The catch of lines 296-298: the item's promise is rejected.
Reject(prom, r) == [prom EXCEPT ![r] = "rejected"]

\* Lines 261-278 from the while test to the next suspension, for the queue q,
\* the promises prom, lastRequestTime lrt and the token tok with expiry exp.
\* The result names the queue and promises left, the activation's new state
\* lp, whether the activation returned (line 301) and the HTTP calls issued.
RECURSIVE WhileTest(_, _, _, _, _)
RECURSIVE Dequeue(_, _, _, _, _)
WhileTest(q, prom, lrt, tok, exp) ==
  IF q = <<>>
  THEN [q |-> q, prom |-> prom, lp |-> IdleLoop, exited |-> TRUE, sent |-> <<>>]
  ELSE IF now - lrt < minRequestInterval
       THEN [q |-> q, prom |-> prom,
             lp |-> [IdleLoop EXCEPT !.pc = "pacing",
                                     !.wakeAt = now + (minRequestInterval - (now - lrt))],
             exited |-> FALSE, sent |-> <<>>]
       ELSE Dequeue(q, prom, lrt, tok, exp)

\* Lines 267-278: shift the head, get a token, issue the call.
Dequeue(q, prom, lrt, tok, exp) ==
  LET r == Head(q) IN
  IF TokenValid(tok, exp)
  THEN [q |-> Tail(q), prom |-> prom,
        lp |-> [IdleLoop EXCEPT !.pc = "fetch", !.item = r],
        exited |-> FALSE, sent |-> <<Call(r, tok, TRUE)>>]
  ELSE IF ~HasCredentials
       THEN WhileTest(Tail(q), Reject(prom, r), lrt, tok, exp)
       ELSE [q |-> Tail(q), prom |-> prom,
             lp |-> [IdleLoop EXCEPT !.pc = "token", !.item = r,
                                     !.xcred = clientId, !.xepoch = epoch],
             exited |-> FALSE, sent |-> <<>>]

\* A faulty variant of the loop without the try/catch of lines 269-298: the
\* error of the item ends the activation and the queue is left as it is.
ContinueAborts(l, prom, lrt) ==
  /\ requestQueue' = requestQueue
  /\ promise' = prom
  /\ loop' = [loop EXCEPT ![l] = IdleLoop]
  /\ isProcessingQueue' = isProcessingQueue
  /\ issued' = issued

\* The activation l goes on from the while test after its item was settled
\* (prom: the promises after the settling, lrt: lastRequestTime after it).
Continue(l, prom, lrt) ==
  LET d == WhileTest(requestQueue, prom, lrt, accessToken, tokenExpiry) IN
  /\ requestQueue' = d.q
  /\ promise' = d.prom
  /\ loop' = [loop EXCEPT ![l] = d.lp]
  /\ isProcessingQueue' = IF d.exited THEN FALSE ELSE isProcessingQueue
  /\ issued' = issued \o d.sent

FreeLoops == {l \in Loops : loop[l].pc = "idle"}

\* makeRequest (lines 142-147) for a lookup with cache key k (0: no cache),
\* with the token tok/exp held at the call: push, then processQueue
\* (lines 254-302) up to its first suspension.
MakeRequest(k, tok, exp) ==
  /\ nextReq < MaxReq
  /\ LET r == nextReq + 1
         q == Append(requestQueue, r)
         prom == [promise EXCEPT ![r] = "pending"]
     IN
     /\ nextReq' = r
     /\ req' = [req EXCEPT ![r] = [key |-> k, epoch |-> epoch]]
     /\ IF isProcessingQueue
        THEN /\ requestQueue' = q
             /\ promise' = prom
             /\ UNCHANGED <<loop, isProcessingQueue, issued>>
        ELSE /\ FreeLoops # {}
             /\ LET l == CHOOSE x \in FreeLoops : \A y \in FreeLoops : x <= y
                    d == WhileTest(q, prom, lastRequestTime, tok, exp)
                IN
                /\ requestQueue' = d.q
                /\ promise' = d.prom
                /\ loop' = [loop EXCEPT ![l] = d.lp]
                /\ isProcessingQueue' = ~d.exited
                /\ issued' = issued \o d.sent

\* A direct makeRequest caller (searchByLabelAndYearRange).
DirectRequest ==
  /\ MakeRequest(0, accessToken, tokenExpiry)
  /\ UNCHANGED <<now, storedCred, clientId, clientSecret, accessToken, tokenExpiry,
                 cache, lastRequestTime, caller, epoch, tokenStoredAt,
                 tokenExpiresIn, ticks, crashed>>
  /\ UNCHANGED <<served, telemetryVars, searchVars>>

\* A faulty variant of the lookups without the memo: no entry is ever served.
CacheFreshNever(e) == FALSE

\* A faulty variant of line 313: an entry is still served at the very
\* instant it is 24 hours old (<= for <).
CacheFreshLate(e) == e.has /\ now - e.timestamp <= FreshnessWindow

\* lines 311-313: the entry is there and Date.now() - timestamp < 24 hours
CacheFresh(e) == e.has /\ now - e.timestamp < FreshnessWindow

\* searchByLabel / getArtistAlbums / getArtist / getAlbumDetails for cache
\* key k (lines 307-337): a fresh entry is returned, a stale one is deleted,
\* and on a miss the request is enqueued.
Lookup(k) ==
  /\ IF CacheFresh(cache[k])
     THEN /\ served' = [key |-> k, data |-> cache[k].data, at |-> now]
          /\ UNCHANGED <<cache, requestQueue, promise, loop, isProcessingQueue,
                         issued, req, nextReq>>
     ELSE /\ MakeRequest(k, accessToken, tokenExpiry)
          /\ cache' = [cache EXCEPT ![k] = NoEntry]
          /\ UNCHANGED served
  /\ UNCHANGED <<now, storedCred, clientId, clientSecret, accessToken,
                 tokenExpiry, lastRequestTime, caller, epoch, tokenStoredAt,
                 tokenExpiresIn, ticks, crashed>>
  /\ UNCHANGED <<telemetryVars, searchVars>>

\* Lines 264-267: the pacing timer fires and the head is shifted without
\* looking at the queue again; on an empty queue the destructuring throws
\* and the activation ends without touching isProcessingQueue.
PacingWake(l) ==
  /\ loop[l].pc = "pacing"
  /\ now >= loop[l].wakeAt
  /\ IF requestQueue = <<>>
     THEN /\ loop' = [loop EXCEPT ![l] = IdleLoop]
          /\ crashed' = TRUE
          /\ UNCHANGED <<requestQueue, promise, isProcessingQueue, issued>>
     ELSE /\ LET d == Dequeue(requestQueue, promise, lastRequestTime,
                              accessToken, tokenExpiry) IN
             /\ requestQueue' = d.q
             /\ promise' = d.prom
             /\ loop' = [loop EXCEPT ![l] = d.lp]
             /\ isProcessingQueue' = IF d.exited THEN FALSE ELSE isProcessingQueue
             /\ issued' = issued \o d.sent
          /\ UNCHANGED crashed
  /\ UNCHANGED <<now, storedCred, clientId, clientSecret, accessToken, tokenExpiry,
                 cache, lastRequestTime, caller, req, nextReq, epoch, tokenStoredAt,
                 tokenExpiresIn, ticks>>
  /\ UNCHANGED <<served, telemetryVars, searchVars>>

\* Lines 115-132 resumed inside the drain loop: the token endpoint answered
\* the exchange the activation l waits for.  On success the token is stored
\* and returned and the resource call is issued with it (lines 271-278); on
\* a failure (network, non-2xx, body) the item is rejected and the loop goes on.
LoopExchangeOk(l, expiresIn) ==
  /\ loop[l].pc = "token"
  /\ StoreToken(loop[l].xcred, loop[l].xepoch, expiresIn)
  /\ loop' = [loop EXCEPT ![l] = [IdleLoop EXCEPT !.pc = "fetch", !.item = loop[l].item]]
  /\ issued' = Append(issued, Call(loop[l].item, Token(loop[l].xcred, loop[l].xepoch),
                                   now < ExpiryFor(expiresIn)))
  /\ UNCHANGED <<now, storedCred, clientId, clientSecret, cache, requestQueue,
                 isProcessingQueue, lastRequestTime, caller, promise, req, nextReq,
                 epoch, ticks, crashed>>
  /\ UNCHANGED <<served, telemetryVars, searchVars>>

LoopExchangeFail(l) ==
  /\ loop[l].pc = "token"
  /\ Continue(l, Reject(promise, loop[l].item), lastRequestTime)
  /\ UNCHANGED <<now, storedCred, clientId, clientSecret, accessToken, tokenExpiry,
                 cache, lastRequestTime, caller, req, nextReq, epoch, tokenStoredAt,
                 tokenExpiresIn, ticks, crashed>>
  /\ UNCHANGED <<served, telemetryVars, searchVars>>

\* Line 271 resumed: fetch threw (network failure).  Line 280 is skipped, so
\* lastRequestTime keeps its old value; the item is rejected.
FetchThrows(l) ==
  /\ loop[l].pc = "fetch"
  /\ Continue(l, Reject(promise, loop[l].item), lastRequestTime)
  /\ UNCHANGED <<now, storedCred, clientId, clientSecret, accessToken, tokenExpiry,
                 cache, lastRequestTime, caller, req, nextReq, epoch, tokenStoredAt,
                 tokenExpiresIn, ticks, crashed>>
  /\ UNCHANGED <<served, telemetryVars, searchVars>>

\* A faulty variant of lines 282-289 that retries: after a non-2xx answer the
\* item is put back at the head of the queue instead of being rejected.
FetchNotOkRetries(l) ==
  /\ loop[l].pc = "fetch"
  /\ lastRequestTime' = now
  /\ LET d == WhileTest(<<loop[l].item>> \o requestQueue, promise, now,
                        accessToken, tokenExpiry) IN
     /\ requestQueue' = d.q
     /\ promise' = d.prom
     /\ loop' = [loop EXCEPT ![l] = d.lp]
     /\ isProcessingQueue' = IF d.exited THEN FALSE ELSE isProcessingQueue
     /\ issued' = issued \o d.sent
  /\ UNCHANGED <<now, storedCred, clientId, clientSecret, accessToken, tokenExpiry,
                 cache, caller, req, nextReq, epoch, tokenStoredAt, tokenExpiresIn,
                 ticks, crashed>>
  /\ UNCHANGED <<served, telemetryVars, searchVars>>

\* Lines 280-289: a non-2xx answer other than 429 sets lastRequestTime and
\* rejects the item.
FetchNotOk(l) ==
  /\ loop[l].pc = "fetch"
  /\ lastRequestTime' = now
  /\ Continue(l, Reject(promise, loop[l].item), now)
  /\ UNCHANGED <<now, storedCred, clientId, clientSecret, accessToken, tokenExpiry,
                 cache, caller, req, nextReq, epoch, tokenStoredAt, tokenExpiresIn,
                 ticks, crashed>>
  /\ UNCHANGED <<served, telemetryVars, searchVars>>

\* Lines 280-292: a 2xx answer (o = "ok") or a 429 (o = "http429") sets
\* lastRequestTime and awaits the telemetry write (trackApiCall,
\* trackRateLimitHit), which suspends on storage.
FetchAnswered(l, o) ==
  /\ loop[l].pc = "fetch"
  /\ lastRequestTime' = now
  /\ loop' = [loop EXCEPT ![l].pc = "track", ![l].out = o]
  /\ UNCHANGED <<now, storedCred, clientId, clientSecret, accessToken, tokenExpiry,
                 cache, requestQueue, isProcessingQueue, caller, promise, req, nextReq,
                 issued, epoch, tokenStoredAt, tokenExpiresIn, ticks, crashed>>
  /\ UNCHANGED <<served, telemetryVars, searchVars>>

\* Lines 326-330: the lookup that awaited request r stores the data under its key.
CacheSet(r) ==
  IF req[r].key = 0
  THEN cache
  ELSE [cache EXCEPT ![req[r].key] = [has |-> TRUE, data |-> r, timestamp |-> now]]

\* Lines 288, 294-298 after the telemetry write: a 429 is thrown and rejects
\* the item; a 2xx body is parsed and resolves it (the awaiting lookup then
\* caches the data), or fails to parse and rejects it.  Then the loop goes on.
TrackReturn(l, parsed) ==
  /\ loop[l].pc = "track"
  /\ LET r == loop[l].item
         ok == loop[l].out = "ok" /\ parsed
     IN
     /\ Continue(l, IF ok THEN [promise EXCEPT ![r] = "resolved"] ELSE Reject(promise, r),
                 lastRequestTime)
     /\ cache' = IF ok THEN CacheSet(r) ELSE cache
  /\ UNCHANGED <<now, storedCred, clientId, clientSecret, accessToken, tokenExpiry,
                 lastRequestTime, caller, req, nextReq, epoch, tokenStoredAt,
                 tokenExpiresIn, ticks, crashed>>
  /\ UNCHANGED <<served, telemetryVars, searchVars>>

\* ------------------------------------------- initialize, reinitialize, testConnection
\* initialize (lines 58-60): suspends on chrome.storage.sync.get.
Initialize(c) ==
  /\ caller[c].pc = "idle"
  /\ caller' = [caller EXCEPT ![c] = [IdleCaller EXCEPT !.pc = "storage",
                                                       !.kind = "initialize"]]
  /\ UNCHANGED <<now, storedCred, clientId, clientSecret, accessToken, tokenExpiry,
                 cache, requestQueue, isProcessingQueue, lastRequestTime, loop,
                 promise, req, nextReq, issued, epoch, tokenStoredAt, tokenExpiresIn,
                 ticks, crashed>>
  /\ UNCHANGED <<served, telemetryVars, searchVars>>

\* A faulty variant of reinitialize that also resets shutdownInitiated.
ReinitializeResetsShutdown(c) ==
  /\ caller[c].pc = "idle"
  /\ epoch < MaxReinit
  /\ accessToken' = NoToken
  /\ tokenExpiry' = 0
  /\ cache' = [k \in Keys |-> NoEntry]
  /\ requestQueue' = <<>>
  /\ isProcessingQueue' = FALSE
  /\ epoch' = epoch + 1
  /\ tokenStoredAt' = 0
  /\ tokenExpiresIn' = 0
  /\ caller' = [caller EXCEPT ![c] = [IdleCaller EXCEPT !.pc = "storage",
                                                       !.kind = "initialize"]]
  /\ UNCHANGED <<now, storedCred, clientId, clientSecret, lastRequestTime, loop,
                 promise, req, nextReq, issued, ticks, crashed>>
  /\ shutdownInitiated' = FALSE
  /\ UNCHANGED <<served, store, contextValid, track, status, tele, searchVars>>

\* reinitialize (lines 77-89): token, cache, queue and busy flag are reset,
\* then initialize() suspends on the storage read.
Reinitialize(c) ==
  /\ caller[c].pc = "idle"
  /\ epoch < MaxReinit
  /\ accessToken' = NoToken
  /\ tokenExpiry' = 0
  /\ cache' = [k \in Keys |-> NoEntry]
  /\ requestQueue' = <<>>
  /\ isProcessingQueue' = FALSE
  /\ epoch' = epoch + 1
  /\ tokenStoredAt' = 0
  /\ tokenExpiresIn' = 0
  /\ caller' = [caller EXCEPT ![c] = [IdleCaller EXCEPT !.pc = "storage",
                                                       !.kind = "initialize"]]
  /\ UNCHANGED <<now, storedCred, clientId, clientSecret, lastRequestTime, loop,
                 promise, req, nextReq, issued, ticks, crashed>>
  /\ UNCHANGED <<served, telemetryVars, searchVars>>

\* initialize (lines 60-67) resumed with the stored credentials: they are
\* taken over if present, then getAccessToken returns the held token or
\* starts an exchange; with nothing stored initialize returns false.
StorageReturn(c) ==
  /\ caller[c].pc = "storage"
  /\ IF storedCred = 0
     THEN /\ caller' = [caller EXCEPT ![c] = IdleCaller]
          /\ UNCHANGED <<clientId, clientSecret>>
     ELSE /\ clientId' = storedCred
          /\ clientSecret' = storedCred
          /\ caller' = [caller EXCEPT ![c] =
                          IF TokenValid(accessToken, tokenExpiry)
                          THEN IdleCaller
                          ELSE [caller[c] EXCEPT !.pc = "token", !.xcred = storedCred,
                                                 !.xepoch = epoch]]
  /\ UNCHANGED <<now, storedCred, accessToken, tokenExpiry, cache, requestQueue,
                 isProcessingQueue, lastRequestTime, loop, promise, req, nextReq,
                 issued, epoch, tokenStoredAt, tokenExpiresIn, ticks, crashed>>
  /\ UNCHANGED <<served, telemetryVars, searchVars>>

\* initialize (lines 68-71): the storage read threw; initialize returns false.
StorageFails(c) ==
  /\ caller[c].pc = "storage"
  /\ caller' = [caller EXCEPT ![c] = IdleCaller]
  /\ UNCHANGED <<now, storedCred, clientId, clientSecret, accessToken, tokenExpiry,
                 cache, requestQueue, isProcessingQueue, lastRequestTime, loop,
                 promise, req, nextReq, issued, epoch, tokenStoredAt, tokenExpiresIn,
                 ticks, crashed>>
  /\ UNCHANGED <<served, telemetryVars, searchVars>>

\* testConnection (lines 537-541): getAccessToken, then a probe request.
\* With a valid token the probe is enqueued at once; without credentials
\* getAccessToken throws and testConnection returns false; otherwise it
\* suspends on the exchange.
TestConnection(c) ==
  /\ caller[c].pc = "idle"
  /\ IF TokenValid(accessToken, tokenExpiry)
     THEN /\ MakeRequest(0, accessToken, tokenExpiry)
          /\ UNCHANGED caller
     ELSE /\ caller' = [caller EXCEPT ![c] =
                          IF HasCredentials
                          THEN [IdleCaller EXCEPT !.pc = "token", !.kind = "testConnection",
                                                  !.xcred = clientId, !.xepoch = epoch]
                          ELSE IdleCaller]
          /\ UNCHANGED <<requestQueue, promise, loop, isProcessingQueue, issued,
                         req, nextReq>>
  /\ UNCHANGED <<now, storedCred, clientId, clientSecret, accessToken, tokenExpiry,
                 cache, lastRequestTime, epoch, tokenStoredAt, tokenExpiresIn, ticks, crashed>>
  /\ UNCHANGED <<served, telemetryVars, searchVars>>

\* getAccessToken (lines 124-132) resumed for initialize / reinitialize /
\* testConnection: the token is stored; testConnection then enqueues its probe.
CallerExchangeOk(c, expiresIn) ==
  /\ caller[c].pc = "token"
  /\ StoreToken(caller[c].xcred, caller[c].xepoch, expiresIn)
  /\ caller' = [caller EXCEPT ![c] = IdleCaller]
  /\ IF caller[c].kind = "testConnection"
     THEN MakeRequest(0, Token(caller[c].xcred, caller[c].xepoch), ExpiryFor(expiresIn))
     ELSE UNCHANGED <<requestQueue, promise, loop, isProcessingQueue, issued, req,
                      nextReq>>
  /\ UNCHANGED <<now, storedCred, clientId, clientSecret, cache, lastRequestTime,
                 epoch, ticks, crashed>>
  /\ UNCHANGED <<served, telemetryVars, searchVars>>

\* getAccessToken (lines 124-126, 133-136): the exchange failed and the error
\* is thrown to initialize / testConnection, which return false.
CallerExchangeFail(c) ==
  /\ caller[c].pc = "token"
  /\ caller' = [caller EXCEPT ![c] = IdleCaller]
  /\ UNCHANGED <<now, storedCred, clientId, clientSecret, accessToken, tokenExpiry,
                 cache, requestQueue, isProcessingQueue, lastRequestTime, loop,
                 promise, req, nextReq, issued, epoch, tokenStoredAt, tokenExpiresIn,
                 ticks, crashed>>
  /\ UNCHANGED <<served, telemetryVars, searchVars>>

\* ---------------------------------------------------------------- environment
\* The clock advances by a short step.
Tick ==
  /\ ticks.short < MaxShort
  /\ now' = now + TickStep
  /\ ticks' = [ticks EXCEPT !.short = @ + 1]
  /\ UNCHANGED <<storedCred, clientId, clientSecret, accessToken, tokenExpiry, cache,
                 requestQueue, isProcessingQueue, lastRequestTime, loop, caller,
                 promise, req, nextReq, issued, epoch, tokenStoredAt, tokenExpiresIn,
                 crashed>>
  /\ UNCHANGED <<served, telemetryVars, searchVars>>

\* The clock advances by a long step.
LongTick ==
  /\ ticks.long < MaxLong
  /\ now' = now + LongStep
  /\ ticks' = [ticks EXCEPT !.long = @ + 1]
  /\ UNCHANGED <<storedCred, clientId, clientSecret, accessToken, tokenExpiry, cache,
                 requestQueue, isProcessingQueue, lastRequestTime, loop, caller,
                 promise, req, nextReq, issued, epoch, tokenStoredAt, tokenExpiresIn,
                 crashed>>
  /\ UNCHANGED <<served, telemetryVars, searchVars>>

Next ==
  \/ DirectRequest
  \/ \E k \in Keys : Lookup(k)
  \/ \E l \in Loops : PacingWake(l)
  \/ \E l \in Loops : \E e \in ExpiresIn : LoopExchangeOk(l, e)
  \/ \E l \in Loops : LoopExchangeFail(l)
  \/ \E l \in Loops : FetchThrows(l)
  \/ \E l \in Loops : FetchNotOk(l)
  \/ \E l \in Loops : \E o \in {"ok", "http429"} : FetchAnswered(l, o)
  \/ \E l \in Loops : \E parsed \in BOOLEAN : TrackReturn(l, parsed)
  \/ \E c \in Callers : Initialize(c)
  \/ \E c \in Callers : Reinitialize(c)
  \/ \E c \in Callers : StorageReturn(c)
  \/ \E c \in Callers : StorageFails(c)
  \/ \E c \in Callers : TestConnection(c)
  \/ \E c \in Callers : \E e \in ExpiresIn : CallerExchangeOk(c, e)
  \/ \E c \in Callers : CallerExchangeFail(c)
  \/ Tick
  \/ LongTick

Spec == Init /\ [][Next]_vars

\* ------------------------------------------------- the cache over a day
\* The clock advances by one millisecond.
Millisecond ==
  /\ ticks.short < MaxMs
  /\ now' = now + 1
  /\ ticks' = [ticks EXCEPT !.short = @ + 1]
  /\ UNCHANGED <<storedCred, clientId, clientSecret, accessToken, tokenExpiry, cache,
                 requestQueue, isProcessingQueue, lastRequestTime, loop, caller,
                 promise, req, nextReq, issued, epoch, tokenStoredAt, tokenExpiresIn,
                 crashed>>
  /\ UNCHANGED <<served, telemetryVars, searchVars>>

\* The clock advances by a millisecond less than the 24 hours of line 313.
AlmostDay ==
  /\ ticks.long < MaxLong
  /\ now' = now + (FreshnessWindow - 1)
  /\ ticks' = [ticks EXCEPT !.long = @ + 1]
  /\ UNCHANGED <<storedCred, clientId, clientSecret, accessToken, tokenExpiry, cache,
                 requestQueue, isProcessingQueue, lastRequestTime, loop, caller,
                 promise, req, nextReq, issued, epoch, tokenStoredAt, tokenExpiresIn,
                 crashed>>
  /\ UNCHANGED <<served, telemetryVars, searchVars>>

\* The client with cache-wrapped lookups only, on a clock that runs over a day.
CacheNext ==
  \/ \E k \in Keys : Lookup(k)
  \/ \E l \in Loops : PacingWake(l)
  \/ \E l \in Loops : \E e \in ExpiresIn : LoopExchangeOk(l, e)
  \/ \E l \in Loops : LoopExchangeFail(l)
  \/ \E l \in Loops : FetchThrows(l)
  \/ \E l \in Loops : FetchNotOk(l)
  \/ \E l \in Loops : \E o \in {"ok", "http429"} : FetchAnswered(l, o)
  \/ \E l \in Loops : \E parsed \in BOOLEAN : TrackReturn(l, parsed)
  \/ \E c \in Callers : Initialize(c)
  \/ \E c \in Callers : Reinitialize(c)
  \/ \E c \in Callers : StorageReturn(c)
  \/ \E c \in Callers : StorageFails(c)
  \/ \E c \in Callers : \E e \in ExpiresIn : CallerExchangeOk(c, e)
  \/ \E c \in Callers : CallerExchangeFail(c)
  \/ Millisecond
  \/ AlmostDay

CacheSpec == Init /\ [][CacheNext]_vars

\* -------------------------------------------------------------- credentials
\* chrome.storage.sync loses the credential pair (read at line 60): the
\* removal that the later reinitialize() is the answer to, so it comes
\* before the first reinitialize.
CredentialsRemoved ==
  /\ storedCred # 0
  /\ epoch = 0
  /\ storedCred' = 0
  /\ UNCHANGED <<now, clientId, clientSecret, accessToken, tokenExpiry, cache,
                 requestQueue, isProcessingQueue, lastRequestTime, loop, caller,
                 promise, req, nextReq, issued, epoch, tokenStoredAt,
                 tokenExpiresIn, ticks, crashed>>
  /\ UNCHANGED <<served, telemetryVars, searchVars>>

CredentialNext ==
  \/ Next
  \/ CredentialsRemoved

CredentialSpec == Init /\ [][CredentialNext]_vars

\* ---------------------------------------------------------------- telemetry
\* "x || 0" (lines 174, 181, 217, 237, 582, 583) of a number-valued slot
OrZero(x) == IF x = Null THEN 0 ELSE x

\* "!x" of line 182: undefined and 0 are falsy
Falsy(x) == x = Null \/ x = 0

\* new Date().toDateString() (line 170), as the number of the calendar day
Today == now \div DayMs

\* Line 286: retryAfter ? parseInt(retryAfter) : null.  headers.get gives null
\* for an absent header and the header's text otherwise; every text, "0"
\* included, is truthy.
Digits == <<"0", "1", "2", "3", "4", "5", "6", "7", "8", "9">>
RetryAfterTexts == {"absent"} \cup {Digits[n + 1] : n \in 0..MaxRetryAfter}
ParseRetryAfter(h) ==
  IF h = "absent" THEN Null ELSE CHOOSE n \in 0..9 : Digits[n + 1] = h

\* What the host can answer to a storage operation in flight: with the
\* extension context gone it throws "Extension context invalidated",
\* otherwise it succeeds or throws another error.
StorageOutcomes == IF contextValid THEN {"ok", "error"} ELSE {"invalidated"}

\* safeStorageOperation, line 38: null at once, the operation is not started.
StorageBlocked(sd) == sd \/ ~contextValid

\* safeStorageOperation, lines 42-52: the result of the operation, null for a
\* context error (shutdownInitiated is set), any other error rethrown.
SafeResult(outcome) ==
  CASE outcome = "ok" -> "value"
    [] outcome = "invalidated" -> "null"
    [] OTHER -> "throw"

\* A faulty variant of the telemetry functions without their try/catch: the
\* error safeStorageOperation rethrows leaves the function.
TrackRethrows(ret) == ret

\* The try/catch of lines 202-204, 219-223, 244-248: an error thrown inside
\* the telemetry function is logged and the function returns.
TrackCatch(ret) == IF ret = "throw" THEN "caught" ELSE ret

\* The telemetry function returned (threw = FALSE) or threw, and the code
\* awaiting it goes on.  processQueue: an error lands in the catch of line
\* 296 and rejects; after trackRateLimitHit line 288 throws and rejects;
\* after trackApiCall line 294 suspends on the body.  A lookup: an error
\* rejects it, otherwise it returns cached.data (line 315).
Completed(rec, threw) ==
  LET done == [IdleTrack EXCEPT !.kind = rec.kind, !.out = rec.out,
                                !.failedAt = rec.failedAt, !.writes = rec.writes]
  IN
  IF threw THEN [done EXCEPT !.result = "rejected", !.threw = TRUE]
  ELSE IF rec.kind = "trackCacheHit" THEN [done EXCEPT !.result = "resolved"]
  ELSE IF rec.out = "http429" THEN [done EXCEPT !.result = "rejected"]
  ELSE [done EXCEPT !.pc = "body"]

\* Lines 153-157, 211-214, 230-234: the function returns at once after a
\* shutdown, safeStorageOperation returns null at once with the context gone
\* (and line 165, 215 or 235 returns); otherwise the read is in flight.
Begin(rec) ==
  IF StorageBlocked(shutdownInitiated)
  THEN Completed([rec EXCEPT !.failedAt = "start"], FALSE)
  ELSE [rec EXCEPT !.pc = "get"]

\* The code from one storage write of the function to the next one, with
\* shutdownInitiated = sd: trackApiCall writes lastResetDate on a new day
\* (line 177, stage "day"), hourlyResetTime on a new hour (line 184, stage
\* "hour") and then the counters (line 197, stage "final"); the two others
\* have the final write only.  A write safeStorageOperation refuses is skipped.
RECURSIVE NextWrite(_, _, _)
NextWrite(rec, stage, sd) ==
  LET need == CASE stage = "day" -> rec.dayReset
                [] stage = "hour" -> rec.hourReset
                [] OTHER -> TRUE
      nxt == IF stage = "day" THEN "hour" ELSE "final"
      skipped == [rec EXCEPT !.failedAt = "between"]
  IN
  IF ~need THEN NextWrite(rec, nxt, sd)
  ELSE IF StorageBlocked(sd)
       THEN IF stage = "final" THEN Completed(skipped, FALSE)
            ELSE NextWrite(skipped, nxt, sd)
       ELSE [rec EXCEPT !.pc = CASE stage = "day" -> "setDay"
                                [] stage = "hour" -> "setHour"
                                [] OTHER -> "set"]

\* Lines 170-185 after the read of trackApiCall: is it a new day, a new hour.
AfterGet(rec, sd) ==
  IF rec.kind = "trackApiCall"
  THEN NextWrite([rec EXCEPT !.today = Today,
                             !.dayReset = (rec.read.lastResetDate # Today),
                             !.hourReset = (Falsy(rec.read.hourlyResetTime)
                                            \/ rec.at - rec.read.hourlyResetTime > HourMs)],
                 "day", sd)
  ELSE NextWrite(rec, "final", sd)

RecentCallsInclusive(calls, at) == SelectSeq(calls, LAMBDA t : t >= at - MinuteMs)

\* recentApiCalls.filter(timestamp => timestamp > now - 60000), lines 188-190
\* and 580: the recorded calls of the last 60 seconds, in their order
RecentCalls(calls, at) == SelectSeq(calls, LAMBDA t : t > at - MinuteMs)

\* The storage after the write the activation rec has in flight landed.
Written(rec) ==
  CASE rec.pc = "setDay" -> [store EXCEPT !.lastResetDate = rec.today]
    [] rec.pc = "setHour" -> [store EXCEPT !.hourlyResetTime = rec.at]
    [] rec.kind = "trackApiCall" ->
         [store EXCEPT
            !.apiCallsToday =
               (IF rec.dayReset THEN 0 ELSE OrZero(rec.read.apiCallsToday)) + 1,
            !.apiCallsThisHour =
               (IF rec.hourReset THEN 0 ELSE OrZero(rec.read.apiCallsThisHour)) + 1,
            !.recentApiCalls = Append(RecentCalls(rec.read.recentApiCalls, rec.at),
                                      rec.at)]
    [] rec.kind = "trackRateLimitHit" ->
         [store EXCEPT !.rateLimitHits = OrZero(rec.read.rateLimitHits) + 1,
                       !.lastRateLimitTime = rec.at,
                       !.rateLimitRetryAfter = rec.retryAfter]
    [] OTHER -> [store EXCEPT !.cacheHits = OrZero(rec.read.cacheHits) + 1]

\* processQueue lines 280-292: the provider answered the dequeued item with
\* 2xx (o = "ok") or with 429 and the Retry-After header h; trackApiCall or
\* trackRateLimitHit begins.
Answered(a, o, h) ==
  /\ track[a].pc = "idle"
  /\ tele.begun < MaxTrack
  /\ o = "ok" => h = "absent"
  /\ track' = [track EXCEPT ![a] =
       Begin([IdleTrack EXCEPT
                !.kind = IF o = "ok" THEN "trackApiCall" ELSE "trackRateLimitHit",
                !.out = o, !.at = now, !.retryAfter = ParseRetryAfter(h)])]
  /\ tele' = [tele EXCEPT !.begun = @ + 1]
  /\ UNCHANGED <<store, shutdownInitiated, contextValid, status>>
  /\ UNCHANGED <<now, storedCred, clientId, clientSecret, accessToken, tokenExpiry,
                 cache, requestQueue, isProcessingQueue, lastRequestTime, loop, caller,
                 promise, req, nextReq, issued, epoch, tokenStoredAt, tokenExpiresIn,
                 ticks, crashed, served, searchVars>>

\* A lookup found a fresh cache entry (lines 311-314): trackCacheHit begins.
CacheHit(a) ==
  /\ track[a].pc = "idle"
  /\ tele.begun < MaxTrack
  /\ track' = [track EXCEPT ![a] =
       Begin([IdleTrack EXCEPT !.kind = "trackCacheHit", !.at = now])]
  /\ tele' = [tele EXCEPT !.begun = @ + 1]
  /\ UNCHANGED <<store, shutdownInitiated, contextValid, status>>
  /\ UNCHANGED <<now, storedCred, clientId, clientSecret, accessToken, tokenExpiry,
                 cache, requestQueue, isProcessingQueue, lastRequestTime, loop, caller,
                 promise, req, nextReq, issued, epoch, tokenStoredAt, tokenExpiresIn,
                 ticks, crashed, served, searchVars>>

\* The storage read of a telemetry function (lines 157, 214, 234) is answered.
StorageGetReturns(a, outcome) ==
  /\ track[a].pc = "get"
  /\ outcome \in StorageOutcomes
  /\ LET rec == track[a]
         ret == TrackCatch(SafeResult(outcome))
         sd == shutdownInitiated \/ outcome = "invalidated"
     IN
     /\ shutdownInitiated' = sd
     /\ track' = [track EXCEPT ![a] =
          IF ret = "throw" THEN Completed([rec EXCEPT !.failedAt = "get"], TRUE)
          ELSE IF ret # "value" THEN Completed([rec EXCEPT !.failedAt = "get"], FALSE)
          ELSE IF sd THEN Completed([rec EXCEPT !.failedAt = "between"], FALSE)
          ELSE AfterGet([rec EXCEPT !.read = store], sd)]
  /\ UNCHANGED <<store, contextValid, status, tele>>
  /\ UNCHANGED <<now, storedCred, clientId, clientSecret, accessToken, tokenExpiry,
                 cache, requestQueue, isProcessingQueue, lastRequestTime, loop, caller,
                 promise, req, nextReq, issued, epoch, tokenStoredAt, tokenExpiresIn,
                 ticks, crashed, served, searchVars>>

\* A storage write of a telemetry function (lines 177, 184, 197, 218, 239)
\* is answered; on success its values are in the storage.
StorageSetReturns(a, outcome) ==
  /\ track[a].pc \in {"setDay", "setHour", "set"}
  /\ outcome \in StorageOutcomes
  /\ LET rec == track[a]
         ret == TrackCatch(SafeResult(outcome))
         sd == shutdownInitiated \/ outcome = "invalidated"
         failed == [rec EXCEPT !.failedAt = "set"]
         landed == [rec EXCEPT !.writes = @ + 1]
     IN
     /\ shutdownInitiated' = sd
     /\ store' = IF outcome = "ok" THEN Written(rec) ELSE store
     /\ tele' = IF outcome = "ok" /\ rec.pc = "set"
                THEN CASE rec.kind = "trackRateLimitHit" ->
                            [tele EXCEPT !.throttleWrites = @ + 1]
                       [] rec.kind = "trackCacheHit" ->
                            [tele EXCEPT !.hitWrites = @ + 1]
                       [] OTHER -> tele
                ELSE tele
     /\ track' = [track EXCEPT ![a] =
          IF ret = "throw" THEN Completed(failed, TRUE)
          ELSE IF ret = "caught" THEN Completed(failed, FALSE)
          ELSE LET rec2 == IF ret = "null" THEN failed ELSE landed IN
               IF rec.pc = "set" THEN Completed(rec2, FALSE)
               ELSE NextWrite(rec2, IF rec.pc = "setDay" THEN "hour" ELSE "final", sd)]
  /\ UNCHANGED <<contextValid, status>>
  /\ UNCHANGED <<now, storedCred, clientId, clientSecret, accessToken, tokenExpiry,
                 cache, requestQueue, isProcessingQueue, lastRequestTime, loop, caller,
                 promise, req, nextReq, issued, epoch, tokenStoredAt, tokenExpiresIn,
                 ticks, crashed, served, searchVars>>

\* processQueue lines 294-298 after trackApiCall: the body is parsed and the
\* item resolved, or the parse fails and the item is rejected.
BodyReturns(a, parsed) ==
  /\ track[a].pc = "body"
  /\ track' = [track EXCEPT ![a].pc = "idle",
                            ![a].result = IF parsed THEN "resolved" ELSE "rejected"]
  /\ UNCHANGED <<store, shutdownInitiated, contextValid, status, tele>>
  /\ UNCHANGED <<now, storedCred, clientId, clientSecret, accessToken, tokenExpiry,
                 cache, requestQueue, isProcessingQueue, lastRequestTime, loop, caller,
                 promise, req, nextReq, issued, epoch, tokenStoredAt, tokenExpiresIn,
                 ticks, crashed, served, searchVars>>

\* The extension is reloaded or removed: chrome.runtime.id is gone for good.
ContextInvalidated ==
  /\ contextValid
  /\ contextValid' = FALSE
  /\ UNCHANGED <<store, shutdownInitiated, track, status, tele>>
  /\ UNCHANGED <<now, storedCred, clientId, clientSecret, accessToken, tokenExpiry,
                 cache, requestQueue, isProcessingQueue, lastRequestTime, loop, caller,
                 promise, req, nextReq, issued, epoch, tokenStoredAt, tokenExpiresIn,
                 ticks, crashed, served, searchVars>>

\* A faulty variant of line 586 that still reports the limit at the very
\* instant the Retry-After period ends (<= for <).
IsCurrentlyLimitedLate(last, retry, at) ==
  last # 0 /\ at - last <= retry * 1000

\* Line 586: lastRateLimitTime && (now - lastRateLimitTime < retryAfter * 1000);
\* the falsy 0 of a missing lastRateLimitTime is written FALSE.
IsCurrentlyLimited(last, retry, at) ==
  last # 0 /\ at - last < retry * 1000

\* getRateLimitStatus lines 566-569: now is captured, the storage read begins.
StatusCall ==
  /\ status.pc = "idle"
  /\ status' = [IdleStatus EXCEPT !.pc = "get", !.at = now]
  /\ UNCHANGED <<store, shutdownInitiated, contextValid, track, tele>>
  /\ UNCHANGED <<now, storedCred, clientId, clientSecret, accessToken, tokenExpiry,
                 cache, requestQueue, isProcessingQueue, lastRequestTime, loop, caller,
                 promise, req, nextReq, issued, epoch, tokenStoredAt, tokenExpiresIn,
                 ticks, crashed, served, searchVars>>

\* getRateLimitStatus lines 579-640: the read is answered and the status is
\* computed from it, or it throws and the catch reports "Unknown", not limited.
StatusReturns(outcome) ==
  /\ status.pc = "get"
  /\ outcome \in StorageOutcomes
  /\ status' =
       IF outcome = "ok"
       THEN LET last == OrZero(store.lastRateLimitTime)
                retry == OrZero(store.rateLimitRetryAfter)
            IN [pc |-> "idle", at |-> status.at, last |-> last, retry |-> retry,
                limited |-> IsCurrentlyLimited(last, retry, status.at), ok |-> TRUE,
                callsLastMinute |-> Len(RecentCalls(store.recentApiCalls, status.at))]
       ELSE [IdleStatus EXCEPT !.at = status.at]
  /\ UNCHANGED <<store, shutdownInitiated, contextValid, track, tele>>
  /\ UNCHANGED <<now, storedCred, clientId, clientSecret, accessToken, tokenExpiry,
                 cache, requestQueue, isProcessingQueue, lastRequestTime, loop, caller,
                 promise, req, nextReq, issued, epoch, tokenStoredAt, tokenExpiresIn,
                 ticks, crashed, served, searchVars>>

TelemetryNext ==
  \/ \E a \in Activations : \E o \in {"ok", "http429"} : \E h \in RetryAfterTexts :
        Answered(a, o, h)
  \/ \E a \in Activations : CacheHit(a)
  \/ \E a \in Activations : \E outcome \in {"ok", "error", "invalidated"} :
        StorageGetReturns(a, outcome)
  \/ \E a \in Activations : \E outcome \in {"ok", "error", "invalidated"} :
        StorageSetReturns(a, outcome)
  \/ \E a \in Activations : \E parsed \in BOOLEAN : BodyReturns(a, parsed)
  \/ ContextInvalidated
  \/ StatusCall
  \/ \E outcome \in {"ok", "error", "invalidated"} : StatusReturns(outcome)
  \/ Tick
  \/ LongTick

\* The telemetry functions do not read the credentials.
TelemetryInit == Init /\ storedCred = 0

TelemetrySpec == TelemetryInit /\ [][TelemetryNext]_vars

\* ------------------------------------------------------ the 60-second window
\* Date.now() read 59.9 seconds later: with Tick, two reads are 59.9 s, 60 s
\* or more than 60 s apart.
AlmostMinute ==
  /\ ticks.long < MaxLong
  /\ now' = now + (MinuteMs - TickStep)
  /\ ticks' = [ticks EXCEPT !.long = @ + 1]
  /\ UNCHANGED <<storedCred, clientId, clientSecret, accessToken, tokenExpiry, cache,
                 requestQueue, isProcessingQueue, lastRequestTime, loop, caller,
                 promise, req, nextReq, issued, epoch, tokenStoredAt, tokenExpiresIn,
                 crashed>>
  /\ UNCHANGED <<served, telemetryVars, searchVars>>

WindowNext ==
  \/ \E a \in Activations : \E o \in {"ok", "http429"} : \E h \in RetryAfterTexts :
        Answered(a, o, h)
  \/ \E a \in Activations : CacheHit(a)
  \/ \E a \in Activations : \E outcome \in {"ok", "error", "invalidated"} :
        StorageGetReturns(a, outcome)
  \/ \E a \in Activations : \E outcome \in {"ok", "error", "invalidated"} :
        StorageSetReturns(a, outcome)
  \/ \E a \in Activations : \E parsed \in BOOLEAN : BodyReturns(a, parsed)
  \/ ContextInvalidated
  \/ StatusCall
  \/ \E outcome \in {"ok", "error", "invalidated"} : StatusReturns(outcome)
  \/ Tick
  \/ AlmostMinute

WindowSpec == TelemetryInit /\ [][WindowNext]_vars

\* ----------------------------------------------- telemetry and reinitialize
ShutdownNext ==
  \/ \E a \in Activations : \E o \in {"ok", "http429"} : \E h \in RetryAfterTexts :
        Answered(a, o, h)
  \/ \E a \in Activations : CacheHit(a)
  \/ \E a \in Activations : \E outcome \in {"ok", "error", "invalidated"} :
        StorageGetReturns(a, outcome)
  \/ \E a \in Activations : \E outcome \in {"ok", "error", "invalidated"} :
        StorageSetReturns(a, outcome)
  \/ \E a \in Activations : \E parsed \in BOOLEAN : BodyReturns(a, parsed)
  \/ ContextInvalidated
  \/ StatusCall
  \/ \E outcome \in {"ok", "error", "invalidated"} : StatusReturns(outcome)
  \/ \E c \in Callers : Reinitialize(c)
  \/ \E c \in Callers : StorageReturn(c)

ShutdownSpec == TelemetryInit /\ [][ShutdownNext]_vars

\* ------------------------------------------------- searchAllAlbumsByLabel
limit == 50                    \* spotify-api.js:708, 796
EscalationThreshold == 90      \* spotify-api.js:656
ChunkCap == 200                \* spotify-api.js:799
startYear == 1950              \* spotify-api.js:767
yearRangeSize == 5             \* spotify-api.js:768
MaxVariations == 5             \* spotify-api.js:865

\* new Date().getFullYear() (line 766) while searchAllAlbumsByLabel runs
currentYear == startYear + MaxYearSpan

\* The years in which searchByLabelAndYear may be called.
Years == startYear..(startYear + MaxYearSpan)

\* Label names, as sequences of their words and blanks.
Labels == {<<"Warp">>, <<"Warp", " ", "Records">>}

\* A page of a sub-query: the ids of its releases.
Items(start, n) == [i \in 1..n |-> start + i]

\* What the provider may answer to the page request at offset o: a page
\* length (an empty page, a short page, one that makes 90 with a full page,
\* a full page), the id of the first release (the releases the direct query
\* lists at this offset, the same shifted by one so that the page repeats the
\* last id of the page before, or other releases) and the reported total
\* (none, one page, two pages), which need not agree with the pages served.
PageLens == {EscalationThreshold - limit - 1, EscalationThreshold - limit, limit}
Starts(o) == {o, o + FreshBase} \cup (IF o > 0 THEN {o - 1} ELSE {})
Totals == {0, limit, 2 * limit}

\* String.replace(word, '') on a name: the first occurrence of the token
\* sequence w is removed.
RECURSIVE RemoveFirst(_, _)
RemoveFirst(name, w) ==
  IF Len(name) < Len(w) THEN name
  ELSE IF SubSeq(name, 1, Len(w)) = w THEN SubSeq(name, Len(w) + 1, Len(name))
  ELSE <<Head(name)>> \o RemoveFirst(Tail(name), w)

\* Set.add in insertion order
AddVariation(vs, v) == IF v \in Range(vs) THEN vs ELSE Append(vs, v)

\* lines 834-849: the table of common variations (of its ten entries the one
\* for 'Epic Records' is written out; the names of Labels are not in it)
commonVariations(labelName) ==
  IF labelName = <<"Epic", " ", "Records">>
  THEN << <<"Epic">>, <<"Epic", " ", "Records", " ", "Group">> >>
  ELSE <<>>

RECURSIVE AddAll(_, _)
AddAll(vs, more) ==
  IF more = <<>> THEN vs ELSE AddAll(AddVariation(vs, Head(more)), Tail(more))

\* generateLabelVariations (lines 827-866)
generateLabelVariations(labelName) ==
  LET v0 == AddAll(<<labelName>>, commonVariations(labelName))
      v1 == IF "Records" \in Range(labelName)
            THEN AddVariation(AddVariation(v0, RemoveFirst(labelName, <<" ", "Records">>)),
                              RemoveFirst(labelName, <<"Records">>))
            ELSE v0
      v2 == IF "Music" \in Range(labelName)
            THEN AddVariation(AddVariation(v1, RemoveFirst(labelName, <<" ", "Music">>)),
                              RemoveFirst(labelName, <<"Music">>))
            ELSE v1
      v3 == SelectSeq(v2, LAMBDA v : v # labelName)
  IN SubSeq(v3, 1, IF Len(v3) < MaxVariations THEN Len(v3) ELSE MaxVariations)

\* deduplicateAlbums (lines 871-880): the filter keeps an album unless its
\* id is in seen, that is unless an album before it has the same id.
deduplicateAlbums(albums) ==
  LET firsts == SelectSeq([i \in 1..Len(albums) |-> i],
                          LAMBDA i : \A j \in 1..(i - 1) : albums[j] # albums[i])
  IN [k \in 1..Len(firsts) |-> albums[firsts[k]]]

\* A faulty variant of line 656 that escalates only above 90 (> for >=).
hitLimitationsAbove(directResults) == Len(directResults) > EscalationThreshold

\* line 656
hitLimitations(directResults) == Len(directResults) >= EscalationThreshold

\* A faulty variant of line 689 that leaves the temporal results out.
CombinedWithoutTemporal(s) == s.directResults \o s.variationResults

\* line 689: [...directResults, ...variationResults, ...temporalResults]
Combined(s) == s.directResults \o s.variationResults \o s.temporalResults

\* A faulty variant that reports progress with every page request.
RequestReportsPage(s, phase, sub) ==
  [s EXCEPT !.pc = phase,
            !.calls = Append(@, [phase |-> phase, sub |-> sub, offset |-> s.offset]),
            !.phases = @ \cup {phase},
            !.progress = Append(@, [message |-> "Searching...",
                                    isLongRunning |-> TRUE])]

\* A page request is made: searchByLabel (line 715) in the direct phase and
\* for a name variant, makeRequest (line 803) for a year range.
Request(s, phase, sub) ==
  [s EXCEPT !.pc = phase,
            !.calls = Append(@, [phase |-> phase, sub |-> sub, offset |-> s.offset]),
            !.phases = @ \cup {phase}]

\* if (progressCallback) progressCallback(message, isLongRunning), lines 650,
\* 671-673, 676, 681 and 686, with a callback given: the calls, as history.
Progress(s, message, isLongRunning) ==
  [s EXCEPT !.progress = Append(@, [message |-> message,
                                    isLongRunning |-> isLongRunning])]

\* searchAllAlbumsByLabel returns (lines 660-665, 694-699).
Return(s, albums) ==
  [s EXCEPT !.pc = "done", !.items = albums, !.total = Len(albums),
            !.outcome = "returned"]

\* A faulty variant of line 773 without the clamp to the current year.
endYearUnclamped(y, cy) == y + yearRangeSize - 1

\* line 773: Math.min(year + yearRangeSize - 1, currentYear)
endYear(y, cy) == IF y + yearRangeSize - 1 < cy THEN y + yearRangeSize - 1 ELSE cy

\* searchByLabelAndYear from the chunk that begins with year y (lines
\* 772-787): the next year range is queried, or the loop is over and
\* searchByLabelAndYear returns its allAlbums (line 787), which
\* searchAllAlbumsByLabel combines and deduplicates (lines 685-699).
TemporalFrom(s, y) ==
  IF y <= s.currentYear
  THEN Request([s EXCEPT !.year = y, !.offset = 0, !.acc = <<>>,
                         !.ranges = Append(@, <<y, endYear(y, s.currentYear)>>)],
               "temporal", y)
  ELSE IF s.entry = "searchByLabelAndYear"
       THEN [s EXCEPT !.pc = "done", !.items = s.temporalResults,
                      !.outcome = "returned"]
       ELSE Return(Progress(s, "Combining and organizing results...", TRUE),
                   deduplicateAlbums(Combined(s)))

\* searchByLabelVariations from the variation number i (lines 745-758): the
\* next variation is searched, or the loop is over and the temporal phase
\* begins (line 682).
VariationsFrom(s, i) ==
  IF i <= Len(s.variations)
  THEN Request([s EXCEPT !.vi = i, !.offset = 0, !.acc = <<>>], "variant", i)
  ELSE TemporalFrom([Progress(s, "Searching by year ranges...", TRUE)
                        EXCEPT !.phases = @ \cup {"temporal"},
                               !.currentYear = currentYear], startYear)

\* The running sub-query returned its allAlbums (s.acc).  After the direct
\* phase lines 653-677 decide on the escalation; a variation's or a year
\* range's releases are pushed to the phase's list and the phase's loop goes
\* on (after its 200 ms or 300 ms pause).
SubQueryReturns(s) ==
  CASE s.pc = "direct" ->
         LET t == [s EXCEPT !.directResults = s.acc] IN
         IF ~hitLimitations(s.acc) THEN Return(t, s.acc)
         ELSE VariationsFrom(
                [Progress(Progress(t, "Large catalog detected", TRUE),
                          "Searching label variations...", TRUE)
                   EXCEPT !.variations = generateLabelVariations(s.label),
                          !.phases = @ \cup {"variant"}], 1)
    [] s.pc = "variant" ->
         VariationsFrom([s EXCEPT !.variationResults = @ \o s.acc], s.vi + 1)
    [] OTHER ->
         TemporalFrom([s EXCEPT !.temporalResults = @ \o s.acc], s.year + yearRangeSize)

\* A faulty variant without the catch of the sub-queries: the error of a page
\* request leaves searchAllAlbumsByLabel.
PageFailureThrows(s) == [s EXCEPT !.pc = "done", !.outcome = "threw"]

\* The catch of lines 727-730 and 815-818: the error is logged, the page loop
\* is left and the sub-query returns what it has.
PageFailure(s) == SubQueryReturns(s)

\* A faulty variant of line 721 that pages on after every full page, as
\* line 809 does, whatever total was reported.
hasMoreIgnoresTotal(s, albums, total) == Len(albums) = limit

\* Lines 721 and 809: hasMore after a non-empty page; the year-range query
\* does not look at the reported total.
hasMore(s, albums, total) ==
  IF s.pc = "temporal"
  THEN Len(albums) = limit
  ELSE Len(albums) = limit /\ s.offset + limit < total

\* A faulty variant of line 799 that still pages at offset 200 (<= for <).
withinChunkCapInclusive(offset) == offset <= ChunkCap

\* line 799: offset < 200
withinChunkCap(offset) == offset < ChunkCap

\* A faulty variant of lines 720 and 808 that keeps the last page only
\* (assignment for push).
PageSuccessOverwrites(s, albums, total) ==
  IF albums = <<>> THEN SubQueryReturns(s)
  ELSE LET t == [s EXCEPT !.acc = albums, !.offset = @ + limit,
                          !.fetched = @ \cup Range(albums), !.pages = @ + 1]
       IN
       IF hasMore(s, albums, total) /\ (s.pc = "temporal" => withinChunkCap(t.offset))
       THEN Request(t, s.pc, IF s.pc = "direct" THEN 0
                             ELSE IF s.pc = "variant" THEN s.vi ELSE s.year)
       ELSE SubQueryReturns(t)

\* Lines 716-726 and 805-814 for a page of albums with the reported total:
\* an empty page ends the sub-query; otherwise the albums are pushed and the
\* next page is requested (after a pause of 150 ms or 100 ms) while hasMore.
PageSuccess(s, albums, total) ==
  IF albums = <<>> THEN SubQueryReturns(s)
  ELSE LET t == [s EXCEPT !.acc = @ \o albums, !.offset = @ + limit,
                          !.fetched = @ \cup Range(albums), !.pages = @ + 1]
       IN
       IF hasMore(s, albums, total) /\ (s.pc = "temporal" => withinChunkCap(t.offset))
       THEN Request(t, s.pc, IF s.pc = "direct" THEN 0
                             ELSE IF s.pc = "variant" THEN s.vi ELSE s.year)
       ELSE SubQueryReturns(t)

\* searchAllAlbumsByLabel(labelName) is called: lines 646-652 and 705-715 up
\* to the first page request.
SearchCall(labelName) ==
  /\ search.pc = "idle"
  /\ search' = Request(Progress([IdleSearch EXCEPT !.label = labelName],
                                 "Searching label catalog...", FALSE), "direct", 0)
  /\ UNCHANGED <<now, storedCred, clientId, clientSecret, accessToken, tokenExpiry,
                 cache, requestQueue, isProcessingQueue, lastRequestTime, loop, caller,
                 promise, req, nextReq, issued, epoch, tokenStoredAt, tokenExpiresIn,
                 ticks, crashed, served, telemetryVars>>

\* The answer of a page request, as history.
Answer(s, ok, n, start, total) ==
  [s EXCEPT !.answers = Append(@, [ok |-> ok, len |-> n, start |-> start,
                                   total |-> total])]

\* The query text of the page request in flight: the label name or the
\* name variant (lines 713 and 749), part of the cache key of line 308.
QueryName(s) == IF s.pc = "direct" THEN s.label ELSE s.variations[s.vi]

\* searchByLabel lines 311-315: the fresh cache entries for the page request
\* in flight; a year-range page goes to makeRequest (line 803) and is looked
\* up nowhere.
CachedPage(s) ==
  IF s.pc \in {"direct", "variant"}
  THEN {e \in s.stored : e.name = QueryName(s) /\ e.offset = s.offset}
  ELSE {}

\* The provider answered the page request in flight: one HTTP call was made,
\* and searchByLabel stores the response under its key (lines 323-326).
Fetched(s, ok, n, start, total) ==
  [s EXCEPT !.http = @ + 1,
            !.stored = IF ok /\ s.pc \in {"direct", "variant"}
                       THEN @ \cup {[name |-> QueryName(s), offset |-> s.offset,
                                      len |-> n, start |-> start, total |-> total]}
                       ELSE @]

\* The page request in flight is answered with n albums from id start + 1 on
\* and the reported total.
PageReturns(n, start, total) ==
  /\ search.pc \in {"direct", "variant", "temporal"}
  /\ CachedPage(search) = {}
  /\ n > 0 => search.pages < MaxPages
  /\ n = 0 => (start = search.offset /\ total = 0)
  /\ start \in Starts(search.offset)
  /\ search' = PageSuccess(Fetched(Answer(search, TRUE, n, start, total),
                                    TRUE, n, start, total), Items(start, n), total)
  /\ UNCHANGED <<now, storedCred, clientId, clientSecret, accessToken, tokenExpiry,
                 cache, requestQueue, isProcessingQueue, lastRequestTime, loop, caller,
                 promise, req, nextReq, issued, epoch, tokenStoredAt, tokenExpiresIn,
                 ticks, crashed, served, telemetryVars>>

\* The page request in flight fails (non-2xx, 429, network or token error).
PageFails ==
  /\ search.pc \in {"direct", "variant", "temporal"}
  /\ CachedPage(search) = {}
  /\ search' = PageFailure([Fetched(Answer(search, FALSE, 0, 0, 0), FALSE, 0, 0, 0)
                              EXCEPT
                              !.directFailed = @ \/ search.pc = "direct",
                              !.failed = @ \cup {Len(search.calls)}])
  /\ UNCHANGED <<now, storedCred, clientId, clientSecret, accessToken, tokenExpiry,
                 cache, requestQueue, isProcessingQueue, lastRequestTime, loop, caller,
                 promise, req, nextReq, issued, epoch, tokenStoredAt, tokenExpiresIn,
                 ticks, crashed, served, telemetryVars>>

SearchNext ==
  \/ \E labelName \in Labels : SearchCall(labelName)
  \/ \E n \in PageLens \cup {0} : \E start \in Starts(search.offset) :
        \E total \in Totals : PageReturns(n, start, total)
  \/ PageFails

\* The search runs on its own; the credentials do not matter to it.
SearchInit == Init /\ storedCred = 0

SearchSpec == SearchInit /\ [][SearchNext]_vars

\* ------------------------------------------------- searchByLabelAndYear
\* searchByLabelAndYear(labelName) is called in the year cy: lines 764-777
\* and 793-803 up to the first page request.
TemporalCall(labelName, cy) ==
  /\ search.pc = "idle"
  /\ search' = TemporalFrom([IdleSearch EXCEPT !.label = labelName,
                                               !.entry = "searchByLabelAndYear",
                                               !.currentYear = cy,
                                               !.phases = {"temporal"}], startYear)
  /\ UNCHANGED <<now, storedCred, clientId, clientSecret, accessToken, tokenExpiry,
                 cache, requestQueue, isProcessingQueue, lastRequestTime, loop, caller,
                 promise, req, nextReq, issued, epoch, tokenStoredAt, tokenExpiresIn,
                 ticks, crashed, served, telemetryVars>>

\* The page request of a year range is answered with n albums from id
\* start + 1 on (lines 803-814).
ChunkPageReturns(n, start) ==
  /\ search.pc = "temporal"
  /\ n > 0 => search.pages < MaxChunkPages
  /\ n = 0 => start = search.offset
  /\ start \in Starts(search.offset)
  /\ search' = PageSuccess(Fetched(Answer(search, TRUE, n, start, 2 * limit),
                                    TRUE, n, start, 2 * limit), Items(start, n),
                            2 * limit)
  /\ UNCHANGED <<now, storedCred, clientId, clientSecret, accessToken, tokenExpiry,
                 cache, requestQueue, isProcessingQueue, lastRequestTime, loop, caller,
                 promise, req, nextReq, issued, epoch, tokenStoredAt, tokenExpiresIn,
                 ticks, crashed, served, telemetryVars>>

TemporalNext ==
  \/ \E labelName \in Labels : \E cy \in Years : TemporalCall(labelName, cy)
  \/ \E n \in PageLens \cup {0} : \E start \in Starts(search.offset) :
        ChunkPageReturns(n, start)
  \/ PageFails

TemporalSpec == SearchInit /\ [][TemporalNext]_vars

\* -------------------------------------------------------- the search repeated
\* searchAllAlbumsByLabel is called again for the label of the search that
\* returned, inside the freshness window and with no reinitialize since: the
\* cache still holds what the first run stored.
SearchAgain ==
  /\ search.pc = "done"
  /\ search.run = 1
  /\ search' = Request(Progress([IdleSearch EXCEPT !.label = search.label,
                                                   !.stored = search.stored,
                                                   !.run = 2,
                                                   !.firstOk = (search.failed = {})],
                                 "Searching label catalog...", FALSE), "direct", 0)
  /\ UNCHANGED <<now, storedCred, clientId, clientSecret, accessToken, tokenExpiry,
                 cache, requestQueue, isProcessingQueue, lastRequestTime, loop, caller,
                 promise, req, nextReq, issued, epoch, tokenStoredAt, tokenExpiresIn,
                 ticks, crashed, served, telemetryVars>>

\* searchByLabel lines 311-315: the page requested is in the cache; after
\* trackCacheHit the cached response is returned and no HTTP call is made.
PageServed ==
  /\ search.pc \in {"direct", "variant"}
  /\ \E e \in CachedPage(search) :
        search' = PageSuccess(Answer(search, TRUE, e.len, e.start, e.total),
                              Items(e.start, e.len), e.total)
  /\ UNCHANGED <<now, storedCred, clientId, clientSecret, accessToken, tokenExpiry,
                 cache, requestQueue, isProcessingQueue, lastRequestTime, loop, caller,
                 promise, req, nextReq, issued, epoch, tokenStoredAt, tokenExpiresIn,
                 ticks, crashed, served, telemetryVars>>

RepeatNext ==
  \/ \E labelName \in Labels : SearchCall(labelName)
  \/ \E n \in PageLens \cup {0} : \E start \in Starts(search.offset) :
        \E total \in Totals : PageReturns(n, start, total)
  \/ PageFails
  \/ SearchAgain
  \/ PageServed

RepeatSpec == SearchInit /\ [][RepeatNext]_vars

\* ======================================================================
\* Properties
\* ======================================================================
Outstanding == {l \in Loops : loop[l].pc = "fetch"}
Exchanging == {<<"loop", l>> : l \in {x \in Loops : loop[x].pc = "token"}}
              \cup {<<"caller", c>> : c \in {x \in Callers : caller[x].pc = "token"}}
WasIssued(r) == \E i \in 1..Len(issued) : issued[i].req = r

\* C1: at most one resource HTTP call issued by the scheduler is outstanding
\* (issued, not yet answered) at any time.
AtMostOneOutstanding == Cardinality(Outstanding) <= 1

\* C2: the provider receives the resource calls in enqueue order: a request
\* enqueued earlier (smaller id) is never issued after one enqueued later.
IssuedInEnqueueOrder ==
  \A i, j \in 1..Len(issued) : i < j => issued[i].req < issued[j].req

\* C3: any two consecutive resource calls are at least minRequestInterval
\* apart on the clock, whatever the outcome of each request.
CallsPaced ==
  \A i \in 1..(Len(issued) - 1) : issued[i + 1].at - issued[i].at >= minRequestInterval

\* C4: a queued request leaves the queue only by being dequeued by the drain
\* loop (which then holds it as its item or has settled its promise); no
\* step removes a queued request and leaves its promise pending with no
\* activation holding it.
QueuedLeavesOnlyByDequeue ==
  [][\A r \in Range(requestQueue) :
        \/ r \in Range(requestQueue')
        \/ \E l \in Loops : loop'[l].item = r
        \/ promise'[r] \in {"resolved", "rejected"}]_vars

\* C5: when the item an activation holds fails (its promise goes from pending
\* to rejected), no other promise changes, no queued request is lost (each
\* stays queued or becomes the activation's next item), and the activation
\* does not end unless the queue is empty.
FailureIsolated ==
  [][\A l \in Loops :
        LET r == loop[l].item IN
        (loop[l].pc \in {"token", "fetch", "track"} /\ promise[r] = "pending"
           /\ promise'[r] = "rejected")
        => /\ \A r2 \in Reqs \ {r} : promise'[r2] = promise[r2]
           /\ \A r2 \in Range(requestQueue) :
                 r2 \in Range(requestQueue') \/ loop'[l].item = r2
           /\ (requestQueue # <<>> => loop'[l].pc \in {"pacing", "token", "fetch"})
           /\ crashed' = crashed]_vars

\* A request failed at the provider and the same run went on to issue the
\* request enqueued after it.
FailureIsolatedWitness ==
  /\ epoch = 0
  /\ ~crashed
  /\ promise[1] = "rejected"
  /\ WasIssued(1)
  /\ \E l \in Loops : loop[l].pc = "fetch" /\ loop[l].item = 2

\* C6: token exchanges are single-flight: at no time are two exchange calls
\* in flight for concurrent getAccessToken callers.
SingleFlightExchange == Cardinality(Exchanging) <= 1

\* C7: for the exchange answer stored at t with expires_in E, a getAccessToken
\* call made strictly before t + 1000*E - 60000 returns the held token and
\* performs no exchange, and a call made at or after that time (or with no
\* token held) starts a new exchange: an item the drain loop dequeues goes
\* straight to its resource call inside the window and to an exchange
\* outside it, and initialize / testConnection start no exchange inside it.
InWindow ==
  accessToken' # NoToken /\ now < tokenStoredAt' + (1000 * tokenExpiresIn') - TokenSkew
TokenWindow ==
  [][/\ \A l \in Loops :
          (loop'[l].item # 0 /\ loop'[l].item # loop[l].item)
          => loop'[l].pc = (IF InWindow THEN "fetch" ELSE "token")
     /\ \A c \in Callers :
          (caller[c].pc # "token" /\ caller'[c].pc = "token") => ~InWindow]_vars

\* The held token was used from the cache inside its window, and at the
\* very instant the window ends a dequeued item starts a new exchange.
TokenWindowWitness ==
  /\ accessToken # NoToken
  /\ tokenExpiresIn = 61
  /\ now = tokenStoredAt + (1000 * tokenExpiresIn) - TokenSkew
  /\ \E l \in Loops :
       /\ loop[l].pc = "token"
       /\ \E i \in 1..Len(issued) :
            /\ issued[i].valid
            /\ issued[i].at > tokenStoredAt
            /\ issued[i].req # loop[l].item

\* C8: every resource call carries a token for which the clock, when the
\* token was handed out for that call, was strictly before tokenExpiry
\* (provider expiry minus the 60 s margin).
TokenFreshWhenSent == \A i \in 1..Len(issued) : issued[i].valid

\* C9: after reinitialize() the token held never stems from an exchange that
\* was started before that reinitialize.
NoPreReinitToken == accessToken # NoToken => accessToken.epoch = epoch

\* C10: after reinitialize() the response cache holds no entry whose data
\* was fetched by a request started before that reinitialize.
NoPreReinitCacheEntry ==
  \A k \in Keys : cache[k].has => req[cache[k].data].epoch = epoch

\* C11: every HTTP 429 answered to a dequeued request is recorded as one
\* throttle event: each trackRateLimitHit write that lands raises the
\* persisted rateLimitHits by one, so the counter equals the number of
\* throttle events written.
ThrottleEventsCounted == OrZero(store.rateLimitHits) = tele.throttleWrites

\* C12: a cache-wrapped lookup returns the cached value only if the entry
\* is strictly less than 24 hours old at the lookup; a lookup that finds an
\* entry of 24 hours or more deletes it and enqueues a request for the key.
ServedOnlyFresh ==
  [][\A k \in Keys :
        /\ (served' # served /\ served'.key = k)
           => /\ cache[k].has
              /\ now - cache[k].timestamp < FreshnessWindow
              /\ served'.data = cache[k].data
        /\ (cache[k].has /\ now - cache[k].timestamp >= FreshnessWindow
              /\ nextReq' # nextReq /\ req'[nextReq'].key = k)
           => /\ ~cache'[k].has
              /\ promise'[nextReq'] = "pending"
              /\ \/ nextReq' \in Range(requestQueue')
                 \/ \E l \in Loops : loop'[l].item = nextReq']_vars

\* An entry was served one millisecond before it was 24 hours old, and the
\* lookup one millisecond later deleted it and enqueued a request.
ServedOnlyFreshWitness ==
  /\ epoch = 0
  /\ served.key \in Keys
  /\ served.data = 1
  /\ now = served.at + 1
  /\ ~cache[served.key].has
  /\ nextReq = 2
  /\ req[2].key = served.key
  /\ promise[2] = "pending"

\* C13: while the entry a successful lookup stored for a key is inside its
\* freshness window, a lookup for that key returns the stored value (the
\* response of a resolved request for that key) and enqueues nothing: no
\* request is added for the key and no resource call is issued.
RepeatedLookupServed ==
  [][\A k \in Keys :
        (cache[k].has /\ now - cache[k].timestamp < FreshnessWindow)
        => /\ ~(nextReq' # nextReq /\ req'[nextReq'].key = k)
           /\ (served' # served /\ served'.key = k)
              => /\ served'.data = cache[k].data
                 /\ served'.data \in Reqs
                 /\ promise[served'.data] = "resolved"
                 /\ req[served'.data].key = k
                 /\ nextReq' = nextReq
                 /\ issued' = issued
                 /\ requestQueue' = requestQueue]_vars

\* The value request 1 fetched was served from the cache later on, with no
\* reinitialize in between and no further request made.
RepeatedLookupServedWitness ==
  /\ epoch = 0
  /\ served.key \in Keys
  /\ served.data = 1
  /\ served.at > cache[served.key].timestamp
  /\ cache[served.key].has
  /\ nextReq = 1
  /\ Len(issued) = 1

Escalated == {"variant", "temporal"} \subseteq search.phases

\* C14: the release list searchAllAlbumsByLabel returns holds no two
\* releases with the same id, whether the search escalated or returned the
\* direct-phase results only.
NoDuplicateIds ==
  search.outcome = "returned" => Cardinality(Range(search.items)) = Len(search.items)

\* C15: the variant phase and the temporal phase run if and only if the
\* direct phase returned at least 90 releases; with 89 or fewer the search
\* returns right after the direct phase, having made direct-phase page
\* requests only.
EscalatesFromNinety ==
  /\ (search.phases \cap {"variant", "temporal"} # {})
        => Len(search.directResults) >= EscalationThreshold
  /\ search.pc = "done"
        => /\ Escalated <=> Len(search.directResults) >= EscalationThreshold
           /\ Len(search.directResults) < EscalationThreshold
                => /\ \A i \in 1..Len(search.calls) : search.calls[i].phase = "direct"
                   /\ search.items = search.directResults

\* A direct phase of exactly 90 releases escalated and the search completed.
EscalatesFromNinetyWitness ==
  /\ search.pc = "done"
  /\ Len(search.directResults) = EscalationThreshold
  /\ Escalated
  /\ \E i \in 1..Len(search.calls) : search.calls[i].phase = "temporal"

\* The year ranges the temporal phase has to query.
ChunkYears == {y \in startYear..currentYear : (y - startYear) % yearRangeSize = 0}

\* C16: an escalated search in which requests of variant sub-queries or of
\* year ranges failed still returns: it does not reject, every variation and
\* every year range was queried, and the result holds every release of the
\* direct phase.
SubQueryFailureTolerated ==
  (search.pc = "done" /\ Escalated)
  => /\ search.outcome = "returned"
     /\ \A v \in 1..Len(generateLabelVariations(search.label)) :
           \E i \in 1..Len(search.calls) :
              search.calls[i] = [phase |-> "variant", sub |-> v, offset |-> 0]
     /\ \A y \in ChunkYears :
           \E i \in 1..Len(search.calls) :
              search.calls[i] = [phase |-> "temporal", sub |-> y, offset |-> 0]
     /\ Range(search.directResults) \subseteq Range(search.items)

\* The first variation's request and the first year range's request failed,
\* the later variation and the later year range were queried, and the search
\* returned.
SubQueryFailureToleratedWitness ==
  /\ search.pc = "done"
  /\ search.outcome = "returned"
  /\ search.failed = {3, 5}
  /\ Len(search.variations) = 2
  /\ Len(search.calls) = 6
  /\ search.calls[3] = [phase |-> "variant", sub |-> 1, offset |-> 0]
  /\ search.calls[4] = [phase |-> "variant", sub |-> 2, offset |-> 0]
  /\ search.calls[5].phase = "temporal"
  /\ search.calls[6].phase = "temporal"
  /\ search.variationResults = <<>>
  /\ search.temporalResults # <<>>

\* C17: a search whose direct-phase request failed ends with an error for
\* its caller, not with a result that looks like a search that found nothing.
DirectFailureSurfaced ==
  (search.pc = "done" /\ search.directFailed) => search.outcome = "threw"

\* C18: in an escalated search the ids of the result are exactly the ids the
\* successful pages of the direct, variant and temporal phases carried.
ResultIsUnionOfPages ==
  (search.pc = "done" /\ Escalated) => Range(search.items) = search.fetched

\* An escalated search returned whose later phases brought ids the direct
\* phase did not have, and ids it had, which were dropped as duplicates.
ResultIsUnionOfPagesWitness ==
  /\ search.pc = "done"
  /\ Escalated
  /\ search.temporalResults # <<>>
  /\ Range(search.temporalResults) \ Range(search.directResults) # {}
  /\ Len(search.items) < Len(Combined(search))

\* C19: a 429 answered at time t with Retry-After R is recorded as
\* lastRateLimitTime = t and rateLimitRetryAfter = R, and a getRateLimitStatus
\* call made at a time T >= t that reads this record reports
\* isCurrentlyLimited = TRUE when T < t + 1000 * R and FALSE from
\* t + 1000 * R on.
ThrottleWindow ==
  [][/\ \A a \in Activations :
          (track[a].kind = "trackRateLimitHit" /\ track[a].pc = "set"
             /\ track'[a] # track[a] /\ store' # store)
          => /\ store'.lastRateLimitTime = track[a].at
             /\ store'.rateLimitRetryAfter = track[a].retryAfter
     /\ (status.pc = "get" /\ status'.pc = "idle" /\ status'.ok)
        => LET t == OrZero(store.lastRateLimitTime)
               R == OrZero(store.rateLimitRetryAfter)
           IN (t # 0 /\ status.at >= t)
              => (status'.limited <=> status.at < t + (1000 * R))]_vars

\* A status call made exactly Retry-After seconds after the 429 of the
\* record reported that the limit is over.
ThrottleWindowWitness ==
  /\ status.ok
  /\ status.pc = "idle"
  /\ status.retry = 1
  /\ status.last = StartTime
  /\ status.at = status.last + (1000 * status.retry)
  /\ ~status.limited
  /\ store.lastRateLimitTime = status.last

\* C20: whatever the host storage does during trackApiCall,
\* trackRateLimitHit or trackCacheHit (refused before the read, failing at
\* the read, gone between read and write, failing at the write), the
\* function does not throw, a failing write leaves the storage as it was,
\* and the outcome for the caller is the one of the response alone: a cache
\* hit returns its value, a 429 is rejected, and a 2xx goes on to its body,
\* which alone decides between resolved and rejected.
TelemetryTolerant ==
  [][\A a \in Activations :
        /\ ~track'[a].threw
        /\ (track'[a] # track[a] /\ track'[a].pc = "idle")
           => CASE track'[a].kind = "trackCacheHit" -> track'[a].result = "resolved"
                [] track'[a].out = "http429" -> track'[a].result = "rejected"
                [] OTHER -> track[a].pc = "body"
        /\ (track[a].pc \in {"get", "setDay", "setHour", "set"}
              /\ track'[a].pc \notin {"get", "setDay", "setHour", "set"})
           => (track'[a].pc = "body" <=> track[a].out = "ok")
        /\ (track[a].pc \in {"setDay", "setHour", "set"} /\ track'[a] # track[a]
              /\ track'[a].failedAt = "set")
           => store' = store]_vars

\* The storage went away between the read and the write of a trackApiCall,
\* and the request it belongs to was resolved all the same.
TelemetryTolerantWitness ==
  \E a \in Activations :
     /\ track[a].kind = "trackApiCall"
     /\ track[a].failedAt = "between"
     /\ track[a].result = "resolved"
     /\ store.apiCallsToday = Null

\* The requests a drain loop holds after its resource call was issued.
Called == {loop[l].item : l \in {x \in Loops : loop[x].pc \in {"fetch", "track"}}}
CallsOf(iss, r) == Cardinality({i \in 1..Len(iss) : iss[i].req = r})

\* C21: while no credentials are configured no token exchange is posted, and
\* a request dequeued then is rejected without any HTTP call; when the
\* exchange a drain loop waits for fails, the item is rejected without a
\* resource call, accessToken and tokenExpiry stay as they were, and the next
\* item the loop dequeues starts a new exchange unless a token is held that
\* is still valid; the exchange of initialize / testConnection either stores
\* the token it was answered with or leaves accessToken and tokenExpiry as
\* they were.
TokenFailureLeavesNoToken ==
  [][/\ (clientId' = 0 \/ clientSecret' = 0)
          => /\ Exchanging' \subseteq Exchanging
             /\ issued' = issued
             /\ \A r \in Reqs :
                   (promise[r] = "none" /\ promise'[r] # "none")
                   => promise'[r] = "rejected"
     /\ \A l \in Loops :
          LET r == loop[l].item IN
          (loop[l].pc = "token" /\ promise[r] = "pending" /\ promise'[r] = "rejected")
          => /\ accessToken' = accessToken
             /\ tokenExpiry' = tokenExpiry
             /\ CallsOf(issued', r) = 0
             /\ loop'[l].item \notin {0, r}
                  => (loop'[l].pc = "token" <=> ~TokenValid(accessToken, tokenExpiry))
     /\ \A c \in Callers :
          (caller[c].pc = "token" /\ caller'[c].pc = "idle")
          => \/ accessToken' = accessToken /\ tokenExpiry' = tokenExpiry
             \/ /\ accessToken' = Token(caller[c].xcred, caller[c].xepoch)
                /\ \E e \in ExpiresIn : tokenExpiry' = ExpiryFor(e)]_vars

\* With no reinitialize, request 1 got its call (so credentials were there
\* before request 2 was dequeued), the exchange for request 2 failed, the
\* token of request 1 is still the one held, and testConnection, finding it
\* expired, waits for a new exchange.
TokenFailureLeavesNoTokenWitness ==
  /\ epoch = 0
  /\ Len(issued) = 1
  /\ issued[1].req = 1
  /\ promise[2] = "rejected"
  /\ accessToken = Token(storedCred, 0)
  /\ tokenStoredAt = issued[1].at
  /\ \E c \in Callers : caller[c].pc = "token" /\ caller[c].kind = "testConnection"

\* C23: at most one processQueue activation is past the guard of line 255 at
\* any time, reinitialize included.
SingleDrainLoop == Cardinality({l \in Loops : loop[l].pc # "idle"}) <= 1

\* C24 as stated: every request the drain loop dequeued and settled got
\* exactly one resource HTTP call, whatever its outcome.
ExactlyOneCallPerItem ==
  \A r \in Reqs : promise[r] \in {"resolved", "rejected"} => CallsOf(issued, r) = 1

\* C24, amended: no request ever gets more than one resource HTTP call; a
\* request gets exactly one once getAccessToken returned a token for it (its
\* loop waits for the answer or for the telemetry write, or it was resolved),
\* and none when getAccessToken failed for it (it is rejected straight from
\* the queue or from the token exchange).
AtMostOneCallPerItem ==
  [][\A r \in Reqs :
        /\ CallsOf(issued', r) <= 1
        /\ (r \in Called' \/ promise'[r] = "resolved") => CallsOf(issued', r) = 1
        /\ (promise[r] \in {"none", "pending"} /\ promise'[r] = "rejected"
              /\ r \notin Called)
           => CallsOf(issued', r) = 0]_vars

\* Request 1 was rejected without a call and request 2 was resolved after
\* its one call.
AtMostOneCallPerItemWitness ==
  /\ promise[1] = "rejected"
  /\ promise[2] = "resolved"
  /\ issued = <<[req |-> 2, at |-> issued[1].at, valid |-> issued[1].valid]>>

\* C30: no two requests for the same cache key are pending at the same time:
\* a lookup started while another one for its key is in progress shares
\* that one's request.
OneRequestPerKey ==
  \A r1, r2 \in Reqs :
     (r1 # r2 /\ promise[r1] = "pending" /\ promise[r2] = "pending"
        /\ req[r1].key # 0)
     => req[r1].key # req[r2].key


\* C25: a completed attempt that ended in success or in 429, with the
\* storage answering every operation, has written to the telemetry storage
\* exactly once, the first call of a new day or hour included.
OneTelemetryWrite ==
  \A a \in Activations :
     (/\ track[a].kind \in {"trackApiCall", "trackRateLimitHit"}
      /\ track[a].pc = "body" \/ (track[a].pc = "idle" /\ track[a].result # "none")
      /\ track[a].failedAt = "none")
     => track[a].writes = 1


\* The releases on the pages the search was answered with, page after page.
RECURSIVE Pages(_)
Pages(as) ==
  IF as = <<>> THEN <<>>
  ELSE (IF Head(as).ok THEN Items(Head(as).start, Head(as).len) ELSE <<>>)
       \o Pages(Tail(as))

\* C22: a search whose direct phase returned fewer than 90 releases, with no
\* id on two of its pages, returns exactly the releases of the direct-phase
\* pages, each once and in the order of the pages, and reports their number
\* as total.
DirectOnlyExact ==
  (/\ search.pc = "done"
   /\ Len(search.directResults) < EscalationThreshold
   /\ Cardinality(Range(Pages(search.answers))) = Len(Pages(search.answers)))
  => /\ search.outcome = "returned"
     /\ search.items = Pages(search.answers)
     /\ Cardinality(Range(search.items)) = Len(search.items)
     /\ search.total = Len(search.items)

\* A search returned after a direct phase of two pages, a full one and a
\* short one without a common id.
DirectOnlyExactWitness ==
  /\ search.pc = "done"
  /\ Len(search.calls) = 2
  /\ search.failed = {}
  /\ search.answers[1].len = limit
  /\ search.answers[2].len = EscalationThreshold - limit - 1
  /\ Cardinality(search.fetched) = EscalationThreshold - 1
  /\ search.total = EscalationThreshold - 1

\* The page requests of the sub-query that request i belongs to.
SameSubQuery(i) ==
  {j \in 1..Len(search.calls) :
     /\ search.calls[j].phase = search.calls[i].phase
     /\ search.calls[j].sub = search.calls[i].sub}

\* C26: a sub-query (direct phase, name variant, year range) whose first
\* page reported a total smaller than the page size requests no further
\* page, however many items that page held.
OnePageWhenTotalSmall ==
  \A i \in 1..Len(search.answers) :
     (search.calls[i].offset = 0 /\ search.answers[i].ok
        /\ search.answers[i].total < limit)
     => SameSubQuery(i) = {i}

DirectCalls == {i \in 1..Len(search.calls) : search.calls[i].phase = "direct"}
Answered_(i) == i <= Len(search.answers)
Continues(i) ==
  /\ search.answers[i].ok
  /\ search.answers[i].len = limit
  /\ search.calls[i].offset + limit < search.answers[i].total
CeilPages(T) == (T + limit - 1) \div limit

\* The direct phase requests its pages at offsets 0, 50, 100, ... in this
\* order, and after a page was answered the next one is requested exactly
\* if the page was a full one, did not fail and offset + 50 < total.
DirectPagesInOrder ==
  /\ DirectCalls = 1..Cardinality(DirectCalls)
  /\ \A i \in DirectCalls : search.calls[i].offset = limit * (i - 1)
  /\ \A i \in DirectCalls : Answered_(i) => ((i + 1 \in DirectCalls) <=> Continues(i))

\* C27 as stated: the pages are requested in order and paging stops as
\* described, and a direct phase whose answers reported totals of at most T
\* makes at most ceil(T / 50) page requests.
DirectBoundedByTotal ==
  /\ DirectPagesInOrder
  /\ \A T \in 0..(2 * limit) :
        (/\ \E i \in DirectCalls : Answered_(i) /\ search.answers[i].ok
         /\ \A i \in DirectCalls :
               (Answered_(i) /\ search.answers[i].ok) => search.answers[i].total <= T)
        => Cardinality(DirectCalls) <= CeilPages(T)

\* C27, amended: the same, with the first request counted, which is made
\* before any total is known: at most max(1, ceil(T / 50)) page requests.
DirectBoundedByTotalOrOne ==
  /\ DirectPagesInOrder
  /\ \A T \in 0..(2 * limit) :
        (\A i \in DirectCalls :
            (Answered_(i) /\ search.answers[i].ok) => search.answers[i].total <= T)
        => Cardinality(DirectCalls) <= (IF CeilPages(T) > 1 THEN CeilPages(T) ELSE 1)

\* A direct phase of two requests: a full page with total 100, then a short
\* page that ended it.
DirectBoundedByTotalOrOneWitness ==
  /\ search.pc = "done"
  /\ DirectCalls = {1, 2}
  /\ search.answers[1] = [ok |-> TRUE, len |-> limit, start |-> 0,
                          total |-> 2 * limit]
  /\ search.answers[2].ok
  /\ search.answers[2].len < limit
  /\ search.answers[2].len > 0

\* C28: a year range gets at most 4 page requests, at offsets 0, 50, 100
\* and 150, whatever the provider answers, so searchByLabelAndYear makes at
\* most 4 requests per year range queried.
ChunkPagesCapped ==
  /\ \A i \in 1..Len(search.calls) :
        search.calls[i].phase = "temporal"
        => /\ Cardinality(SameSubQuery(i)) <= 4
           /\ search.calls[i].offset \in {0, 50, 100, 150}
           /\ \A j \in SameSubQuery(i) :
                 j # i => search.calls[j].offset # search.calls[i].offset
  /\ Len(search.calls) <= 4 * Len(search.ranges)

\* The first year range was answered with four full pages and the search
\* went on to the next year range, although the provider had more to serve.
ChunkPagesCappedWitness ==
  /\ search.entry = "searchByLabelAndYear"
  /\ Len(search.calls) = 5
  /\ \A i \in 1..4 : search.answers[i].ok /\ search.answers[i].len = limit
  /\ search.calls[4] = [phase |-> "temporal", sub |-> startYear, offset |-> 150]
  /\ search.calls[5] = [phase |-> "temporal", sub |-> startYear + yearRangeSize,
                         offset |-> 0]
  /\ search.pages < MaxChunkPages

\* C29: the year ranges queried are [1950 + 5k, min(1950 + 5k + 4,
\* currentYear)] for k = 0, 1, ..., in this order; no range ends after
\* currentYear, and once the loop is over every year from 1950 to
\* currentYear lies in exactly one of them.
YearRangesPartition ==
  LET R == search.ranges
      cy == search.currentYear
  IN
  /\ \A k \in 1..Len(R) :
        /\ R[k][1] = 1950 + (5 * (k - 1))
        /\ R[k][2] = (IF R[k][1] + 4 <= cy THEN R[k][1] + 4 ELSE cy)
        /\ R[k][1] <= R[k][2]
        /\ R[k][2] <= cy
        /\ k < Len(R) => R[k][2] < R[k + 1][1]
  /\ search.pc = "done"
        => \A y \in 1950..cy :
              Cardinality({k \in 1..Len(R) : R[k][1] <= y /\ y <= R[k][2]}) = 1

\* The loop ran in 1956 and queried 1950-1954 and then 1955-1956.
YearRangesPartitionWitness ==
  /\ search.pc = "done"
  /\ search.entry = "searchByLabelAndYear"
  /\ search.currentYear = 1956
  /\ search.ranges = << <<1950, 1954>>, <<1955, 1956>> >>
  /\ search.temporalResults # <<>>

\* C33: every request enqueued by makeRequest is eventually resolved or
\* rejected, in every interleaving of makeRequest and reinitialize calls.
\* Stated on the states in which no processQueue activation is alive (none
\* is suspended on a token exchange, a provider call, a pacing timer or a
\* telemetry write, so nothing is left to return): there no request is
\* pending.
NoPendingWhenDrained ==
  (\A l \in Loops : loop[l].pc = "idle")
     => \A r \in Reqs : promise[r] # "pending"

\* C34: the drain loop never dequeues from an empty queue: the shift after
\* the pacing wait always finds a request in the queue.
NeverShiftsEmptyQueue == ~crashed

\* C38: with storage available the persisted cacheHits counter rises by
\* exactly the number of cache hits served, also when several
\* trackCacheHit activations overlap: every trackCacheHit write that lands
\* raises the counter by one, so the counter equals the number of hit
\* writes that landed.
CacheHitsCounted == OrZero(store.cacheHits) = tele.hitWrites

\* C36: a cache-wrapped lookup whose request is rejected stores nothing:
\* the step that rejects the request of a lookup for key k leaves the cache
\* as it was, and after it the cache holds no entry for k, so that the next
\* lookup for k enqueues a new request.
RejectedLookupStoresNothing ==
  [][\A r \in Reqs :
        (promise[r] = "pending" /\ promise'[r] = "rejected" /\ req[r].key # 0)
        => /\ cache' = cache
           /\ ~cache'[req[r].key].has]_vars

\* C35: once a reinitialize() has completed, every token exchange that is
\* started uses the credentials that storage held at that reinitialize; if
\* storage held none, no exchange is started with the clientId and
\* clientSecret loaded before.  (Every initialize has returned when all
\* callers are idle; storage does not change after the first reinitialize.)
ExchangeUsesStoredCredentials ==
  [][(epoch >= 1 /\ \A c \in Callers : caller[c].pc = "idle")
        => /\ \A l \in Loops :
                (loop'[l] # loop[l] /\ loop'[l].pc = "token")
                   => loop'[l].xcred = storedCred
           /\ \A c \in Callers :
                caller'[c].pc = "token" => caller'[c].xcred = storedCred]_vars

\* C31: the final write of a trackApiCall leaves in recentApiCalls only
\* timestamps newer than that call's now - 60 s, the new call's timestamp
\* last, and drops no recorded timestamp that is newer; a getRateLimitStatus
\* that reads the storage reports as callsLastMinute the number of recorded
\* timestamps newer than its now - 60 s.
RecentCallsWindowed ==
  [][/\ \A a \in Activations :
          (track[a].kind = "trackApiCall" /\ track[a].pc = "set"
             /\ track'[a].writes = track[a].writes + 1)
          => LET L == store'.recentApiCalls
                 at == track[a].at
                 old == track[a].read.recentApiCalls
             IN /\ Len(L) >= 1
                /\ L[Len(L)] = at
                /\ \A i \in 1..Len(L) : L[i] > at - 60000
                /\ \A i \in 1..Len(old) :
                      old[i] > at - 60000 => old[i] \in Range(L)
     /\ (status.pc = "get" /\ status'.pc = "idle" /\ status'.ok)
          => status'.callsLastMinute =
                Cardinality({i \in 1..Len(store.recentApiCalls) :
                                store.recentApiCalls[i] > status.at - 60000})]_vars

\* A call recorded at 1000 was dropped by the call recorded exactly 60 s
\* later, which had read it, and the status asked at that time counts one.
RecentCallsWindowedWitness ==
  /\ store.recentApiCalls = <<StartTime + 60000>>
  /\ store.apiCallsToday = 2
  /\ status.ok
  /\ status.at = StartTime + 60000
  /\ status.callsLastMinute = 1

ProgressCalls ==
  << [message |-> "Searching label catalog...", isLongRunning |-> FALSE],
     [message |-> "Large catalog detected", isLongRunning |-> TRUE],
     [message |-> "Searching label variations...", isLongRunning |-> TRUE],
     [message |-> "Searching by year ranges...", isLongRunning |-> TRUE],
     [message |-> "Combining and organizing results...", isLongRunning |-> TRUE] >>

\* C32: the progress callback is called at phase boundaries only: once,
\* with isLongRunning = false, in a search that returns the direct results,
\* and five times in an escalated search (catalog search, large-catalog
\* notice, variations, year ranges, combining; all but the first with
\* isLongRunning = true), whatever the number of pages requested; while the
\* search runs the calls made so far are the beginning of that list.
ProgressAtPhaseBoundaries ==
  LET P == search.progress IN
  (search.pc # "idle" /\ search.entry = "searchAllAlbumsByLabel")
  => /\ Len(P) >= 1
     /\ Len(P) <= 5
     /\ P = SubSeq(ProgressCalls, 1, Len(P))
     /\ ~hitLimitations(search.directResults) => Len(P) = 1
     /\ search.pc = "variant" => Len(P) = 3
     /\ search.pc = "temporal" => Len(P) = 4
     /\ (search.pc = "done" /\ hitLimitations(search.directResults)) => Len(P) = 5

\* An escalated search that requested six pages made the five calls, and
\* its first page had not made a second one.
ProgressAtPhaseBoundariesWitness ==
  /\ search.pc = "done"
  /\ search.outcome = "returned"
  /\ Len(search.directResults) >= 90
  /\ Len(search.calls) >= 6
  /\ Len(search.progress) = 5

\* C37: a second searchAllAlbumsByLabel for the same label, inside the
\* freshness window, after a first run whose requests all succeeded and with
\* no reinitialize in between, makes no provider HTTP call, whether the
\* label escalates or not.
SecondRunFromCache ==
  (search.run = 2 /\ search.firstOk) => search.http = 0


=============================================================================
